---- MODULE Spec2Model ----
(***************************************************************************)
(* leaflet-node: a model of the synthetic image element (the patched       *)
(* HTMLImageElement `src` setter and the HeadlessImage class), of the      *)
(* export pipeline (mapToCanvas / toBuffer / saveImage), of the testing    *)
(* helpers (waitForTiles, waitForMapReady, createTestMap and               *)
(* cleanupTestMaps), of initializeEnvironment, of the undici and           *)
(* ReadableStream polyfills, of the patched map size, of the image loader  *)
(* and its proxy dispatcher, of font discovery and of the DomEvent patch.  *)
(*                                                                         *)
(* Each component has its own specification (SpecImage, SpecExport,        *)
(* SpecWait, SpecReady, SpecTeardown, SpecEnv, SpecPolyfill, SpecSize,     *)
(* SpecLoader, SpecFont, SpecDomEvent, SpecProxy); a component's           *)
(* specification leaves the other components' variables at their initial  *)
(* value.                                                                  *)
(***************************************************************************)
EXTENDS Integers, Sequences, FiniteSets, TLC

VARIABLES
  \* ---- synthetic image element
  imgVariant,    \* "dom": patched HTMLImageElement, "class": HeadlessImage
  onloadMode,    \* the load handler: "none" | "ok" | "throws"
  onerrorMode,   \* the error handler: "none" | "ok"
  imgSrc,        \* the element's current src
  napiImage,     \* element._napiImage: "none" or the src it was decoded from
  imgWidth,      \* element.width  (0: unset)
  imgHeight,     \* element.height (0: unset)
  cycles,        \* one record per src assignment, in assignment order
  \* ---- export pipeline
  elements,      \* the container's canvas/img descendants, in document order
  mapLayers,     \* layers on the map that matter to an export
  exportPc,      \* position of the running mapToCanvas call
  exportIdx,     \* index of the element the loop is at
  drawn,         \* what has been drawn on the output canvas, in order
  exportCall,    \* the toBuffer / saveImage call that wraps mapToCanvas
  containerOk,   \* map.getContainer() is a usable element
  rendererReady, \* adding a vector layer creates the renderer's canvas
  \* ---- waitForTiles
  layerKind,     \* "modern": no _tilesToLoad field, "legacy": has one
  layerLoading,  \* layer._loading / layer.isLoading()
  layerOutstanding, \* tiles the layer has started and not finished
  layerCreated,  \* tiles the layer has created so far
  layerLoadEvents,  \* 'load' events the layer has fired
  layerLastError,   \* the last tileerror event the layer fired
  wait,          \* the closure state of one waitForTiles call
  \* ---- waitForMapReady
  mapLoaded,     \* map._loaded: the map has fired its ready signal
  mapTileLayers, \* the layers of map._layers, in the order they were added
  ready,         \* the state of one waitForMapReady call
  \* ---- teardown
  maps,          \* the maps created so far, by id
  trackedMaps,   \* the module's trackedMaps set, in insertion order
  cleanupPc,     \* position of the running cleanupTestMaps call
  origCancels,   \* the library's own removal cancels the renderer's requests
  \* ---- initializeEnvironment
  globalL,       \* global.L: "none" or the mapping library's namespace
  globalDocument,   \* global.document / global.window: "none", "host", "jsdom"
  jsdomBuilt,    \* JSDOM instances built
  srcSetterPatches,     \* times HTMLImageElement.prototype.src was redefined
  createElementPatches, \* times document.createElement was wrapped
  mapPrototypePatches,  \* times patchMapPrototype ran
  fontsRegistered,  \* the fontsRegistered flag of the font module
  fontBasePath,  \* the base path the fonts were registered from
  initLog,       \* one record per initializeEnvironment call
  \* ---- polyfills
  globals,       \* the globals ensureUndiciPolyfills looks at, and the host's timer kind
  utilAvailable, \* require('node:util') is at hand
  undiciPolyfillsEnsured,  \* the flag of the undici polyfill module
  undiciCalls,   \* calls of ensureUndiciPolyfills so far
  firstApplied,  \* the globals as the first call left them
  rsVariant,     \* the version of ensureReadableStream: "flagged" or "plain"
  readableStreamEnsured,   \* the flag of the flagged version
  globalReadableStream,    \* globalThis.ReadableStream
  rsAtLastReturn,   \* globalThis.ReadableStream when ensureReadableStream last returned
  timers,        \* the timers scheduled through setTimeout
  wrappedTimerIds,  \* the wrappedTimerIds map of each wrapper layer, innermost first
  \* ---- map size
  optionsMapSize,   \* options.mapSize of the initializer
  mapCreated,    \* the map has been constructed
  mapSizeOption, \* this.options.mapSize of the map (ZeroSize: not given)
  containerClient,  \* clientWidth / clientHeight of the container
  containerRect,    \* width / height of the container's bounding rectangle
  hasSize,       \* this._size is set
  size,          \* this._size
  sizeChanged,   \* this._sizeChanged
  hasHeadlessSize,  \* this._headlessSize is set
  headlessSize,  \* this._headlessSize
  lastSet,       \* the arguments of the last setSize
  lastGet,       \* the result of the last getSize since the state changed
  \* ---- image loader
  loader,        \* the state of one loadImageSource call
  \* ---- font discovery
  fontHost,      \* what the font lookups find on this host
  fontEnv,       \* the font base path the process is configured with
  fontCall,      \* the outcome of ensureDefaultFontsRegistered
  \* ---- DomEvent.off patch
  domEvent,      \* L.DomEvent: whether it exists, is patched, and how removeListener relates to off
  offLog,        \* one record per call of L.DomEvent.off / removeListener
  \* ---- proxy dispatcher
  proxyEnv,      \* the proxy variables of process.env ('' when unset)
  cachedDispatcher,\* the module's cachedDispatcher: 'undefined', 'null', or the variable its agent was built from
  proxyFetches,  \* network loads made so far
  lastDispatcher \* what resolveProxyDispatcher gave the last load

imageVars == <<imgVariant, onloadMode, onerrorMode, imgSrc, napiImage,
               imgWidth, imgHeight, cycles>>
exportVars == <<elements, mapLayers, exportPc, exportIdx, drawn, exportCall,
                containerOk, rendererReady>>
waitVars == <<layerKind, layerLoading, layerOutstanding, layerCreated,
              layerLoadEvents, layerLastError, wait>>
readyVars == <<mapLoaded, mapTileLayers, ready>>
teardownVars == <<maps, trackedMaps, cleanupPc, origCancels>>
envVars == <<globalL, globalDocument, jsdomBuilt, srcSetterPatches,
             createElementPatches, mapPrototypePatches, fontsRegistered,
             fontBasePath, initLog>>
polyfillVars == <<globals, utilAvailable, undiciPolyfillsEnsured, undiciCalls,
                  firstApplied, rsVariant, readableStreamEnsured,
                  globalReadableStream, rsAtLastReturn, timers, wrappedTimerIds>>
sizeVars == <<optionsMapSize, mapCreated, mapSizeOption, containerClient,
              containerRect, hasSize, size, sizeChanged, hasHeadlessSize,
              headlessSize, lastSet, lastGet>>
loaderVars == <<loader>>
fontVars == <<fontHost, fontEnv, fontCall>>
domEventVars == <<domEvent, offLog>>
proxyVars == <<proxyEnv, cachedDispatcher, proxyFetches, lastDispatcher>>
vars == <<imageVars, exportVars, waitVars, readyVars, teardownVars, envVars,
          polyfillVars, sizeVars, loaderVars, fontVars, domEventVars, proxyVars>>

\* what the actions of one component leave alone
notImage == <<exportVars, waitVars, readyVars, teardownVars, envVars, polyfillVars, sizeVars, loaderVars, fontVars, domEventVars, proxyVars>>
notExport == <<imageVars, waitVars, readyVars, teardownVars, envVars, polyfillVars, sizeVars, loaderVars, fontVars, domEventVars, proxyVars>>
notWait == <<imageVars, exportVars, readyVars, teardownVars, envVars, polyfillVars, sizeVars, loaderVars, fontVars, domEventVars, proxyVars>>
notReady == <<imageVars, exportVars, waitVars, teardownVars, envVars, polyfillVars, sizeVars, loaderVars, fontVars, domEventVars, proxyVars>>
notEnv == <<imageVars, exportVars, waitVars, readyVars, teardownVars, polyfillVars, sizeVars, loaderVars, fontVars, domEventVars, proxyVars>>
notPolyfill == <<imageVars, exportVars, waitVars, readyVars, teardownVars, envVars, sizeVars, loaderVars, fontVars, domEventVars, proxyVars>>
notSize == <<imageVars, exportVars, waitVars, readyVars, teardownVars, envVars, polyfillVars, loaderVars, fontVars, domEventVars, proxyVars>>
notTeardown == <<imageVars, exportVars, waitVars, readyVars, envVars, polyfillVars, sizeVars, loaderVars, fontVars, domEventVars, proxyVars>>
notLoader == <<imageVars, exportVars, waitVars, readyVars, teardownVars, envVars, polyfillVars, sizeVars, fontVars, domEventVars, proxyVars>>
notFont == <<imageVars, exportVars, waitVars, readyVars, teardownVars, envVars, polyfillVars, sizeVars, loaderVars, domEventVars, proxyVars>>
notDomEvent == <<imageVars, exportVars, waitVars, readyVars, teardownVars, envVars, polyfillVars, sizeVars, loaderVars, fontVars, proxyVars>>
notProxy == <<imageVars, exportVars, waitVars, readyVars, teardownVars, envVars, polyfillVars, sizeVars, loaderVars, fontVars, domEventVars>>

Max(a, b) == IF a >= b THEN a ELSE b

(***************************************************************************)
(* Bounds of the model.                                                    *)
(***************************************************************************)
\* src assignments made to the image element
MaxAssign == 3
\* drawable elements under the map container
MaxElems == 3
\* tiles a layer creates
MaxTiles == 3

(***************************************************************************)
(* The resource loader, as far as the image element and the export see it. *)
(* A source either decodes to an image, is rejected (missing file, bad     *)
(* status, malformed data URI) or never settles (a hanging request).       *)
(***************************************************************************)
Srcs == {"A", "B", "bad", "hang"}

\* loadImageSource(src): how the returned promise settles
LoadOutcome(s) ==
  CASE s = "A" -> "ok"
    [] s = "B" -> "ok"
    [] s = "hang" -> "hang"
    [] OTHER -> "bad"

\* natural width (= height) of the image decoded from src
DecodedSize(s) ==
  CASE s = "A" -> 256
    [] s = "B" -> 1
    [] OTHER -> 0

(***************************************************************************)
(* Synthetic image element.                                                *)
(*                                                                         *)
(* A cycle is one src assignment: `fetch` is the state of the promise      *)
(* loadImageSource returned for it, `phase` the state of the cycle itself  *)
(* (the async function `load`, or loadImage(...).catch(...)), `timer` the  *)
(* 30 s timeout of the patched setter; loadFired / errorFired count the    *)
(* load and error notifications the cycle delivered.                       *)
(***************************************************************************)
NewCycle(s, t) ==
  [src |-> s, fetch |-> "inflight", phase |-> "waiting", timer |-> t,
   loadFired |-> 0, errorFired |-> 0]

ImageInit ==
  /\ imgVariant \in {"dom", "class"}
  /\ onloadMode \in (IF imgVariant = "dom" THEN {"ok", "throws"}
                                           ELSE {"none", "ok", "throws"})
  /\ onerrorMode \in (IF imgVariant = "dom" THEN {"ok"} ELSE {"none", "ok"})
  /\ imgSrc = ""
  /\ napiImage = "none"
  /\ imgWidth = 0
  /\ imgHeight = 0
  /\ cycles = <<>>

\* HTMLImageElement.prototype.src setter: store the attribute, start `load`
\* (which arms the 30 s timer and awaits the race).
DomSetSrc(s) ==
  /\ imgVariant = "dom"
  /\ Len(cycles) < MaxAssign
  /\ imgSrc' = s
  /\ cycles' = Append(cycles, NewCycle(s, "armed"))
  /\ UNCHANGED <<imgVariant, onloadMode, onerrorMode, napiImage, imgWidth, imgHeight>>
  /\ UNCHANGED notImage

\* HeadlessImage `set src`: store _src, start loadImage (no timer).
ClassSetSrc(s) ==
  /\ imgVariant = "class"
  /\ Len(cycles) < MaxAssign
  /\ imgSrc' = s
  /\ cycles' = Append(cycles, NewCycle(s, "none"))
  /\ UNCHANGED <<imgVariant, onloadMode, onerrorMode, napiImage, imgWidth, imgHeight>>
  /\ UNCHANGED notImage

\* `load`, try branch: the race was won by loadImageSource. The element takes
\* the decoded image and its size, the load event is dispatched (an exception
\* of a listener is reported by the DOM, not thrown by dispatchEvent), and the
\* finally block clears the timer.
DomLoaded(i) ==
  /\ napiImage' = cycles[i].src
  /\ imgWidth' = DecodedSize(cycles[i].src)
  /\ imgHeight' = DecodedSize(cycles[i].src)
  /\ cycles' = [cycles EXCEPT ![i].fetch = "resolved", ![i].phase = "loaded",
                              ![i].timer = "cleared",
                              ![i].loadFired = @ + 1]

\* `load`, catch branch: the error event is dispatched and the timer cleared.
\* `by` is "fetch" (loadImageSource rejected) or "timer" (the timeout fired).
DomFailed(i, by) ==
  /\ cycles' = [cycles EXCEPT
       ![i].fetch = IF by = "fetch" THEN "rejected" ELSE @,
       ![i].phase = "failed",
       ![i].timer = IF by = "timer" THEN "fired" ELSE "cleared",
       ![i].errorFired = @ + 1]
  /\ UNCHANGED <<napiImage, imgWidth, imgHeight>>

\* HeadlessImage.loadImage after its await, and the .catch of `set src`: the
\* size is copied, onload is called when assigned; when onload throws,
\* loadImage rejects and the .catch calls onerror when assigned.
ClassLoaded(i) ==
  /\ imgWidth' = DecodedSize(cycles[i].src)
  /\ imgHeight' = DecodedSize(cycles[i].src)
  /\ cycles' = [cycles EXCEPT
       ![i].fetch = "resolved",
       ![i].phase = IF onloadMode = "throws" THEN "failed" ELSE "loaded",
       ![i].loadFired = IF onloadMode # "none" THEN @ + 1 ELSE @,
       ![i].errorFired = IF onloadMode = "throws" /\ onerrorMode # "none"
                         THEN @ + 1 ELSE @]
  /\ UNCHANGED napiImage

\* HeadlessImage: loadImageSource rejected, the .catch calls onerror when assigned.
ClassFailed(i) ==
  /\ cycles' = [cycles EXCEPT
       ![i].fetch = "rejected",
       ![i].phase = "failed",
       ![i].errorFired = IF onerrorMode # "none" THEN @ + 1 ELSE @]
  /\ UNCHANGED <<napiImage, imgWidth, imgHeight>>

\* The promise of loadImageSource resolves for cycle i. A cycle the timer has
\* already failed ignores it: the race is settled.
FetchResolve(i) ==
  /\ i \in 1..Len(cycles)
  /\ cycles[i].fetch = "inflight"
  /\ LoadOutcome(cycles[i].src) = "ok"
  /\ IF cycles[i].phase = "waiting"
       THEN IF imgVariant = "dom" THEN DomLoaded(i) ELSE ClassLoaded(i)
       ELSE /\ cycles' = [cycles EXCEPT ![i].fetch = "resolved"]
            /\ UNCHANGED <<napiImage, imgWidth, imgHeight>>
  /\ UNCHANGED <<imgVariant, onloadMode, onerrorMode, imgSrc>>
  /\ UNCHANGED notImage

\* The promise of loadImageSource rejects for cycle i.
FetchReject(i) ==
  /\ i \in 1..Len(cycles)
  /\ cycles[i].fetch = "inflight"
  /\ LoadOutcome(cycles[i].src) = "bad"
  /\ IF cycles[i].phase = "waiting"
       THEN IF imgVariant = "dom" THEN DomFailed(i, "fetch") ELSE ClassFailed(i)
       ELSE /\ cycles' = [cycles EXCEPT ![i].fetch = "rejected"]
            /\ UNCHANGED <<napiImage, imgWidth, imgHeight>>
  /\ UNCHANGED <<imgVariant, onloadMode, onerrorMode, imgSrc>>
  /\ UNCHANGED notImage

\* The 30 s timer of cycle i fires: timeoutPromise rejects and wins the race.
ImageTimeout(i) ==
  /\ i \in 1..Len(cycles)
  /\ cycles[i].timer = "armed"
  /\ cycles[i].phase = "waiting"
  /\ DomFailed(i, "timer")
  /\ UNCHANGED <<imgVariant, onloadMode, onerrorMode, imgSrc>>
  /\ UNCHANGED notImage

ImageNext ==
  \/ \E s \in Srcs : DomSetSrc(s)
  \/ \E s \in Srcs : ClassSetSrc(s)
  \/ \E i \in 1..MaxAssign : FetchResolve(i)
  \/ \E i \in 1..MaxAssign : FetchReject(i)
  \/ \E i \in 1..MaxAssign : ImageTimeout(i)

(***************************************************************************)
(* waitForTiles(tileLayer, options).                                       *)
(*                                                                         *)
(* The layer is the mapping library's grid layer: it creates tiles (firing *)
(* tileloadstart), finishes them (tileload or tileerror) and fires load    *)
(* when none is outstanding. A "modern" layer has no _tilesToLoad field, a  *)
(* "legacy" layer keeps the number of outstanding tiles in it. Listeners   *)
(* run synchronously inside the layer's action.                            *)
(***************************************************************************)
\* const { timeout = 45000 } = options
DefaultTimeout == 45000

\* options.timeout as the caller gives it
TimeoutInputs ==
  {[given |-> FALSE, value |-> 0]} \cup [given : {TRUE}, value : {-1, 0, 1000}]

ResolveTimeout(t) == IF t.given THEN t.value ELSE DefaultTimeout

AllListeners == {"load", "tileloadstart", "tileload", "tileerror"}

NoReason == [kind |-> "none", url |-> ""]

\* tileerror events: the failing tile's src ("" when it has none) and coords
TileErrorEvents == [src : {"", "tile.png"}, coords : {"none", "1/2/3"}]

NoEvent == [src |-> "", coords |-> "none"]

WaitIdle ==
  [status |-> "idle", reason |-> NoReason, settledBy |-> "none",
   loaded |-> 0, failed |-> 0, total |-> 0, listeners |-> {},
   timer |-> "none", timeout |-> 0, settleCalls |-> 0]

\* What a listener reads from the layer when it runs: _tilesToLoad (hasTTL says
\* whether the field is a finite number) and isLoading().
LayerView(outstanding, loading) ==
  [hasTTL |-> (layerKind = "legacy"), ttl |-> outstanding, loading |-> loading]

\* initialTotal
InitialTotal(view) == IF view.hasTTL THEN Max(view.ttl, 0) ELSE 0

\* isComplete() with strict comparisons
IsCompleteStrict(w, view) ==
  LET pending == w.total - w.loaded - w.failed
      tilesRemaining == IF view.hasTTL THEN Max(view.ttl, 0) ELSE pending
  IN  (~view.loading /\ pending < 0) \/ tilesRemaining < 0

\* isComplete()
IsComplete(w, view) ==
  LET pending == w.total - w.loaded - w.failed
      tilesRemaining == IF view.hasTTL THEN Max(view.ttl, 0) ELSE pending
  IN  (~view.loading /\ pending <= 0) \/ tilesRemaining <= 0

\* createTimeout that never arms a timer
CreateTimeoutNever(timeout) == "none"

\* createTimeout(timeout, onTimeout): no timer for a timeout that is 0 or negative
CreateTimeout(timeout) == IF timeout <= 0 THEN "none" ELSE "armed"

\* cleanup() that cancels the timer and leaves the listeners on the layer
CleanupTimerOnly(w) ==
  [w EXCEPT !.timer = IF @ = "armed" THEN "cancelled" ELSE @]

\* cleanup(): cancel the timer, remove the four listeners
Cleanup(w) ==
  [w EXCEPT !.timer = IF @ = "armed" THEN "cancelled" ELSE @,
            !.listeners = {}]

\* resolve() / reject(error) of the promise: only the first call settles it
Settle(w, status, reason, by) ==
  IF w.status = "pending"
    THEN [w EXCEPT !.status = status, !.reason = reason, !.settledBy = by,
                   !.settleCalls = @ + 1]
    ELSE [w EXCEPT !.settleCalls = @ + 1]

\* handleLoad
HandleLoad(w, by) ==
  Settle(Cleanup([w EXCEPT !.loaded = Max(w.total - w.failed, w.loaded)]),
         "resolved", NoReason, by)

\* handleTileLoadStart
HandleTileLoadStart(w) == [w EXCEPT !.total = @ + 1]

\* handleTileLoad
HandleTileLoad(w, view) ==
  LET w1 == [w EXCEPT !.loaded = @ + 1]
  IN  IF IsComplete(w1, view) THEN HandleLoad(w1, "tileload") ELSE w1

\* the tile's coordinates preferred to its src
TileUrlCoordsFirst(ev) ==
  IF ev.coords # "none" THEN ev.coords
  ELSE IF ev.src # "" THEN ev.src
  ELSE "unknown tile"

\* event?.tile?.src || event?.coords, then ?? 'unknown tile'
TileUrl(ev) ==
  IF ev.src # "" THEN ev.src
  ELSE IF ev.coords # "none" THEN ev.coords
  ELSE "unknown tile"

\* handleTileError that resolves when the failed tile was the last pending one
HandleTileErrorResolvesLast(w, ev, view) ==
  LET w1 == [w EXCEPT !.failed = @ + 1]
  IN  IF IsComplete(w1, view)
        THEN HandleLoad(w1, "tileerror")
        ELSE Settle(Cleanup(w1), "rejected",
                    [kind |-> "Tile failed to load", url |-> TileUrl(ev)],
                    "tileerror")

\* handleTileError
HandleTileError(w, ev, view) ==
  Settle(Cleanup([w EXCEPT !.failed = @ + 1]),
         "rejected", [kind |-> "Tile failed to load", url |-> TileUrl(ev)],
         "tileerror")

\* The layer fires `event`: the listener of the wait runs when still attached.
Emit(w, event, ev, view) ==
  IF event \notin w.listeners THEN w
  ELSE CASE event = "load" -> HandleLoad(w, "load")
         [] event = "tileloadstart" -> HandleTileLoadStart(w)
         [] event = "tileload" -> HandleTileLoad(w, view)
         [] OTHER -> HandleTileError(w, ev, view)

WaitInit ==
  /\ layerKind \in {"modern", "legacy"}
  /\ layerOutstanding \in 0..MaxTiles
  /\ layerLoading \in (IF layerOutstanding > 0 THEN {TRUE} ELSE BOOLEAN)
  /\ layerCreated = layerOutstanding
  /\ layerLoadEvents = 0
  /\ layerLastError = NoEvent
  /\ wait = WaitIdle

\* The promise executor of waitForTiles, run to its end for a layer seen as
\* `view` and a resolved timeout: the closure state it leaves.
WaitForTilesExecutor(timeout, view) ==
  LET w0 == [WaitIdle EXCEPT !.status = "pending",
                             !.timeout = timeout,
                             !.total = InitialTotal(view)]
  IN  IF IsComplete(w0, view)
        THEN Settle([w0 EXCEPT !.loaded = Max(w0.total - w0.failed, w0.loaded)],
                    "resolved", NoReason, "call")
        ELSE [w0 EXCEPT !.timer = CreateTimeout(w0.timeout),
                        !.listeners = AllListeners]

\* The timer callback of waitForTiles: cleanup(), reject(...).
WaitTimedOut(w) ==
  Settle(Cleanup([w EXCEPT !.timer = "fired"]), "rejected",
         [kind |-> "Timed out waiting for tile layer to load.", url |-> ""],
         "timeout")

\* waitForTiles is called: the promise executor runs to its end.
CallWaitForTiles(t) ==
  /\ wait.status = "idle"
  /\ wait' = WaitForTilesExecutor(ResolveTimeout(t),
                                  LayerView(layerOutstanding, layerLoading))
  /\ UNCHANGED <<layerKind, layerLoading, layerOutstanding, layerCreated,
                 layerLoadEvents, layerLastError>>
  /\ UNCHANGED notWait

\* The timer of createTimeout fires.
WaitTimeout ==
  /\ wait.timer = "armed"
  /\ wait' = WaitTimedOut(wait)
  /\ UNCHANGED <<layerKind, layerLoading, layerOutstanding, layerCreated,
                 layerLoadEvents, layerLastError>>
  /\ UNCHANGED notWait

\* The layer creates a tile: it is loading, and fires tileloadstart.
LayerStartTile ==
  /\ layerCreated < MaxTiles
  /\ layerCreated' = layerCreated + 1
  /\ layerOutstanding' = layerOutstanding + 1
  /\ layerLoading' = TRUE
  /\ wait' = Emit(wait, "tileloadstart", NoEvent, LayerView(layerOutstanding + 1, TRUE))
  /\ UNCHANGED <<layerKind, layerLoadEvents, layerLastError>>
  /\ UNCHANGED notWait

\* When a layer updates its fields relative to firing tileload / tileerror:
\* "after" the event, the "count" before it and the loading flag after it, or
\* "both" before it.
FieldOrders == {"after", "count", "both"}

\* A tile finishes, with `event` "tileload" or "tileerror": the layer fires the
\* event and, when no tile is outstanding any more, stops loading and fires load.
LayerTileDone(event, ev, order) ==
  /\ layerOutstanding > 0
  /\ LET left == layerOutstanding - 1
         seenCount == IF order = "after" THEN layerOutstanding ELSE left
         seenLoading == IF order = "both" /\ left = 0 THEN FALSE ELSE layerLoading
         w1 == Emit(wait, event, ev, LayerView(seenCount, seenLoading))
     IN  /\ layerOutstanding' = left
         /\ layerLoading' = IF left = 0 THEN FALSE ELSE layerLoading
         /\ layerLoadEvents' = IF left = 0 THEN layerLoadEvents + 1 ELSE layerLoadEvents
         /\ wait' = IF left = 0 THEN Emit(w1, "load", NoEvent, LayerView(0, FALSE)) ELSE w1
  /\ layerLastError' = IF event = "tileerror" THEN ev ELSE layerLastError
  /\ UNCHANGED <<layerKind, layerCreated>>
  /\ UNCHANGED notWait

LayerTileLoad == \E order \in FieldOrders : LayerTileDone("tileload", NoEvent, order)

LayerTileError ==
  \E ev \in TileErrorEvents, order \in FieldOrders : LayerTileDone("tileerror", ev, order)

\* A layer that is loading with no tile outstanding stops loading and fires load.
LayerFinishLoading ==
  /\ layerLoading
  /\ layerOutstanding = 0
  /\ layerLoading' = FALSE
  /\ layerLoadEvents' = layerLoadEvents + 1
  /\ wait' = Emit(wait, "load", NoEvent, LayerView(0, FALSE))
  /\ UNCHANGED <<layerKind, layerOutstanding, layerCreated, layerLastError>>
  /\ UNCHANGED notWait

WaitNext ==
  \/ \E t \in TimeoutInputs : CallWaitForTiles(t)
  \/ WaitTimeout
  \/ LayerStartTile
  \/ LayerTileLoad
  \/ LayerTileError
  \/ LayerFinishLoading

(***************************************************************************)
(* Export pipeline: map.toBuffer / map.saveImage over mapToCanvas.         *)
(*                                                                         *)
(* mapToCanvas runs synchronously from one await to the next: it suspends  *)
(* only on `await loadImageSource(src)` for an image element that has no   *)
(* cached _napiImage, and on `await drawPopupOverlays(...)`.               *)
(***************************************************************************)
CanvasEl(backed) ==
  [tag |-> "canvas", napiCanvas |-> backed, src |-> "", cached |-> FALSE,
   drawFails |-> FALSE]

ImgEl(s, cached, drawFails) ==
  [tag |-> "img", napiCanvas |-> FALSE, src |-> s, cached |-> cached,
   drawFails |-> drawFails]

\* The kinds of drawable element: a canvas with or without its backing
\* _napiCanvas; an image without src, with a cached _napiImage (which
\* ctx.drawImage accepts or throws on), or with a src still to be loaded.
ElemKinds ==
  {CanvasEl(TRUE), CanvasEl(FALSE), ImgEl("", FALSE, FALSE),
   ImgEl("A", TRUE, FALSE), ImgEl("A", TRUE, TRUE), ImgEl("A", FALSE, FALSE),
   ImgEl("bad", FALSE, FALSE), ImgEl("hang", FALSE, FALSE)}

SeqsUpTo(S, n) == UNION {[1..k -> S] : k \in 0..n}

PopupNames == {"popup1", "popup2"}

\* collectPopupLayers: the open popups, in layer order
PopupSeq(layers) == SelectSeq(<<"popup1", "popup2">>, LAMBDA p : p \in layers)

\* a toBuffer / saveImage call; `circle`: it added the temporary circle,
\* `layersBefore`: the map's layers when it was called
NoCall ==
  [kind |-> "none", status |-> "idle", error |-> "none", circle |-> FALSE,
   layersBefore |-> {}]

ExportInit ==
  /\ containerOk \in BOOLEAN
  /\ elements \in (IF containerOk THEN SeqsUpTo(ElemKinds, MaxElems) ELSE {<<>>})
  /\ rendererReady \in (IF elements = <<>> THEN BOOLEAN ELSE {TRUE})
  /\ mapLayers \in SUBSET PopupNames
  /\ exportPc = "idle"
  /\ exportIdx = 0
  /\ drawn = <<>>
  /\ exportCall = NoCall

RECURSIVE RunLoop(_, _, _)

\* no catch: the failure leaves mapToCanvas
AfterImageFailureRethrow(els, i, d) == [pc |-> "threw", idx |-> i, drawn |-> d]

\* catch (error) { console.warn(`Failed to draw tile image ...`) }: the loop
\* goes on with the next element.
AfterImageFailure(els, i, d) == RunLoop(els, i + 1, d)

\* an image drawn underneath what has been drawn so far
DrawImageUnderneath(els, i, d) ==
  IF els[i].drawFails
    THEN AfterImageFailure(els, i, d)
    ELSE RunLoop(els, i + 1, <<<<"elem", i>>>> \o d)

\* The try block once the image is at hand: ctx.drawImage(image, x, y, w, h).
DrawImage(els, i, d) ==
  IF els[i].drawFails
    THEN AfterImageFailure(els, i, d)
    ELSE RunLoop(els, i + 1, Append(d, <<"elem", i>>))

\* for (const element of drawableElements), from element i on, up to the next
\* await or the end of the loop.
RunLoop(els, i, d) ==
  IF i > Len(els) THEN [pc |-> "popups", idx |-> i, drawn |-> d]
  ELSE IF els[i].tag = "canvas"
    THEN IF els[i].napiCanvas
           THEN RunLoop(els, i + 1, Append(d, <<"elem", i>>))
           ELSE RunLoop(els, i + 1, d)
  ELSE IF els[i].src = "" THEN RunLoop(els, i + 1, d)
  ELSE IF els[i].cached THEN DrawImage(els, i, d)
  ELSE [pc |-> "awaitLoad", idx |-> i, drawn |-> d]

\* toBuffer's catch: `Failed to export map to buffer: ...` (saveImage wraps it
\* again in `Failed to save map image: ...`).
Rejected(call, why) == [call EXCEPT !.status = "rejected", !.error = why]

\* mapToCanvas without the removal of the temporary circle after the loop
AfterLoopKeepsCircle(r, call, layers) ==
  /\ drawn' = r.drawn
  /\ exportIdx' = r.idx
  /\ exportPc' = IF r.pc = "threw" THEN "idle" ELSE r.pc
  /\ exportCall' = IF r.pc = "threw" THEN Rejected(call, "image") ELSE call
  /\ mapLayers' = layers

\* The state mapToCanvas leaves when its loop stops at `r`; `layers` are the
\* map's layers while the loop ran. The temporary circle is removed after the
\* loop; an exception leaves the function at once.
AfterLoop(r, call, layers) ==
  /\ drawn' = r.drawn
  /\ exportIdx' = r.idx
  /\ exportPc' = IF r.pc = "threw" THEN "idle" ELSE r.pc
  /\ exportCall' = IF r.pc = "threw" THEN Rejected(call, "image") ELSE call
  /\ mapLayers' = IF r.pc = "popups" THEN layers \ {"tempCircle"} ELSE layers

\* map.toBuffer(...) or map.saveImage(...) is called: mapToCanvas runs up to
\* its first await.
ExportStart(kind) ==
  /\ exportCall.status # "pending"
  /\ LET call == [kind |-> kind, status |-> "pending", error |-> "none",
                  circle |-> containerOk /\ elements = <<>>,
                  layersBefore |-> mapLayers]
     IN  IF ~containerOk
           THEN /\ exportCall' = Rejected(call, "container")
                /\ exportPc' = "idle"
                /\ exportIdx' = 0
                /\ drawn' = <<>>
                /\ UNCHANGED <<elements, mapLayers>>
         ELSE IF elements = <<>> /\ ~rendererReady
           THEN \* the circle is added, the re-query finds nothing, the circle
                \* is removed and the function throws
                /\ exportCall' = Rejected(call, "renderer")
                /\ exportPc' = "idle"
                /\ exportIdx' = 0
                /\ drawn' = <<>>
                /\ UNCHANGED <<elements, mapLayers>>
         ELSE IF elements = <<>>
           THEN /\ elements' = <<CanvasEl(TRUE)>>
                /\ AfterLoop(RunLoop(elements', 1, <<>>), call,
                             mapLayers \cup {"tempCircle"})
         ELSE /\ AfterLoop(RunLoop(elements, 1, <<>>), call, mapLayers)
              /\ UNCHANGED elements
  /\ UNCHANGED <<containerOk, rendererReady>>
  /\ UNCHANGED notExport

\* The promise of `await loadImageSource(src)` settles: the image is cached on
\* the element and drawn, or the catch block skips the element.
ExportLoadSettled ==
  /\ exportPc = "awaitLoad"
  /\ LoadOutcome(elements[exportIdx].src) \in {"ok", "bad"}
  /\ IF LoadOutcome(elements[exportIdx].src) = "ok"
       THEN /\ elements' = [elements EXCEPT ![exportIdx].cached = TRUE]
            /\ AfterLoop(DrawImage(elements', exportIdx, drawn), exportCall, mapLayers)
       ELSE /\ AfterLoop(AfterImageFailure(elements, exportIdx, drawn), exportCall,
                         mapLayers)
            /\ UNCHANGED elements
  /\ UNCHANGED <<containerOk, rendererReady>>
  /\ UNCHANGED notExport

\* drawPopupOverlays has drawn the open popups; mapToCanvas returns and
\* toBuffer encodes the canvas. saveImage goes on to fs.writeFile.
ExportFinish ==
  /\ exportPc = "popups"
  /\ drawn' = drawn \o [k \in 1..Len(PopupSeq(mapLayers)) |->
                          <<"popup", PopupSeq(mapLayers)[k]>>]
  /\ IF exportCall.kind = "saveImage"
       THEN /\ exportPc' = "write"
            /\ UNCHANGED exportCall
       ELSE /\ exportPc' = "idle"
            /\ exportCall' = [exportCall EXCEPT !.status = "resolved"]
  /\ UNCHANGED <<elements, mapLayers, exportIdx, containerOk, rendererReady>>
  /\ UNCHANGED notExport

\* saveImage: fs.writeFile settles.
ExportWrite(ok) ==
  /\ exportPc = "write"
  /\ exportPc' = "idle"
  /\ exportCall' = IF ok THEN [exportCall EXCEPT !.status = "resolved"]
                         ELSE Rejected(exportCall, "write")
  /\ UNCHANGED <<elements, mapLayers, exportIdx, drawn, containerOk, rendererReady>>
  /\ UNCHANGED notExport

ExportNext ==
  \/ \E kind \in {"toBuffer", "saveImage"} : ExportStart(kind)
  \/ ExportLoadSettled
  \/ ExportFinish
  \/ \E ok \in BOOLEAN : ExportWrite(ok)

(***************************************************************************)
(* waitForMapReady(map, options).                                          *)
(*                                                                         *)
(* The call first awaits the map's ready signal (map.whenReady), guarded   *)
(* by its own timer, then starts one waitForTiles per layer of the map     *)
(* that has a getTileUrl function and awaits Promise.all of them.          *)
(* Continuations of settled promises run before any timer or layer event,  *)
(* so they are part of the action that settles the promise.                *)
(***************************************************************************)
MaxLayers == 2

MaxLayerTiles == 1

\* A layer of the map: `tile` says it has a getTileUrl function, `w` is the
\* closure state of the waitForTiles call made on it.
MapLayer(tile, hasTTL, outstanding, loading) ==
  [tile |-> tile, hasTTL |-> hasTTL, outstanding |-> outstanding,
   loading |-> loading, w |-> WaitIdle]

MapLayerKinds ==
  {MapLayer(FALSE, FALSE, 0, FALSE)} \cup
  {MapLayer(TRUE, h, n, b) : <<h, n, b>> \in
     {x \in BOOLEAN \X (0..MaxLayerTiles) \X BOOLEAN : x[2] > 0 => x[3]}}

\* what a listener of waitForTiles reads from layer l
ViewOf(l) == [hasTTL |-> l.hasTTL, ttl |-> l.outstanding, loading |-> l.loading]

\* the tileerror event the map's layers fire
MapTileError == [src |-> "tile.png", coords |-> "1/2/3"]

ReadyIdle ==
  [status |-> "idle", stage |-> "none", timer |-> "none", timeout |-> 0,
   reason |-> "none", listener |-> FALSE, waited |-> {}, layersAtReady |-> 0]

\* getTileLayers(map): the layers with a getTileUrl function
GetTileLayers(layers) == {i \in 1..Len(layers) : layers[i].tile}

\* a combinator that resolves as soon as one of the waits has resolved
PromiseAny(r, layers) ==
  IF r.status # "pending" \/ r.stage # "layers" THEN r
  ELSE IF \E i \in r.waited : layers[i].w.status = "resolved"
    THEN [r EXCEPT !.status = "resolved"]
  ELSE IF \A i \in r.waited : layers[i].w.status = "rejected"
    THEN [r EXCEPT !.status = "rejected", !.reason = "Tile failed to load"]
  ELSE r

\* await Promise.all(tileLayers.map(waitForTiles)): rejected by the first wait
\* that rejects, resolved once every wait has resolved
PromiseAll(r, layers) ==
  IF r.status # "pending" \/ r.stage # "layers" THEN r
  ELSE IF \E i \in r.waited : layers[i].w.status = "rejected"
    THEN [r EXCEPT !.status = "rejected",
                   !.reason = layers[CHOOSE i \in r.waited :
                                       layers[i].w.status = "rejected"].w.reason.kind]
  ELSE IF \A i \in r.waited : layers[i].w.status = "resolved"
    THEN [r EXCEPT !.status = "resolved"]
  ELSE r

\* handleLoad of waitForMapReady: cleanup() cancels the timer and removes the
\* map's load listener; resolve() lets the function go on.
MapHandleLoad(r) ==
  [r EXCEPT !.timer = IF @ = "armed" THEN "cancelled" ELSE @,
            !.listener = FALSE]

\* waitForMapReady after its first await: the tile layers attached now are
\* collected and a waitForTiles is started on each; with none the call
\* returns.
AfterReady(r, layers) ==
  LET waited == GetTileLayers(layers)
      started == [i \in 1..Len(layers) |->
                    IF i \in waited
                      THEN [layers[i] EXCEPT
                              !.w = WaitForTilesExecutor(r.timeout, ViewOf(layers[i]))]
                      ELSE layers[i]]
      r1 == [r EXCEPT !.stage = "layers", !.waited = waited,
                      !.layersAtReady = Len(layers)]
  IN  [r |-> IF waited = {} THEN [r1 EXCEPT !.status = "resolved"]
                            ELSE PromiseAll(r1, started),
       layers |-> started]

ReadyInit ==
  /\ mapLoaded \in BOOLEAN
  /\ mapTileLayers \in SeqsUpTo(MapLayerKinds, MaxLayers)
  /\ ready = ReadyIdle

\* waitForMapReady is called: the timer is armed and map.whenReady(handleLoad)
\* either calls handleLoad at once (the map is loaded) or listens for 'load'.
CallWaitForMapReady(t) ==
  /\ ready.status = "idle"
  /\ LET r0 == [ReadyIdle EXCEPT !.status = "pending", !.stage = "map",
                                 !.timeout = ResolveTimeout(t),
                                 !.timer = CreateTimeout(ResolveTimeout(t))]
         a == AfterReady(MapHandleLoad(r0), mapTileLayers)
     IN  IF mapLoaded
           THEN /\ ready' = a.r
                /\ mapTileLayers' = a.layers
           ELSE /\ ready' = [r0 EXCEPT !.listener = TRUE]
                /\ UNCHANGED mapTileLayers
  /\ UNCHANGED mapLoaded
  /\ UNCHANGED notReady

\* The map becomes ready and fires 'load'.
MapFiresLoad ==
  /\ ~mapLoaded
  /\ mapLoaded' = TRUE
  /\ LET a == AfterReady(MapHandleLoad(ready), mapTileLayers)
     IN  IF ready.listener
           THEN /\ ready' = a.r
                /\ mapTileLayers' = a.layers
           ELSE UNCHANGED <<ready, mapTileLayers>>
  /\ UNCHANGED notReady

\* The timer of waitForMapReady fires: cleanup(), reject(...).
ReadyTimeout ==
  /\ ready.timer = "armed"
  /\ ready' = [ready EXCEPT !.timer = "fired", !.listener = FALSE,
                            !.status = "rejected",
                            !.reason = "Timed out waiting for map readiness."]
  /\ UNCHANGED <<mapLoaded, mapTileLayers>>
  /\ UNCHANGED notReady

\* A layer is added to the map.
MapAddLayer(l) ==
  /\ Len(mapTileLayers) < MaxLayers
  /\ mapTileLayers' = Append(mapTileLayers, l)
  /\ UNCHANGED <<mapLoaded, ready>>
  /\ UNCHANGED notReady

\* Layer i changes to l2; the reactions of Promise.all run with it.
MapLayerChanges(i, l2) ==
  /\ mapTileLayers' = [mapTileLayers EXCEPT ![i] = l2]
  /\ ready' = PromiseAll(ready, mapTileLayers')
  /\ UNCHANGED mapLoaded
  /\ UNCHANGED notReady

\* A tile of layer i finishes with `event`; with no tile left the layer stops
\* loading and fires load.
MapLayerTileDone(i, event, order) ==
  /\ i \in 1..Len(mapTileLayers)
  /\ mapTileLayers[i].outstanding > 0
  /\ LET l == mapTileLayers[i]
         left == l.outstanding - 1
         seen == [hasTTL |-> l.hasTTL,
                  ttl |-> IF order = "after" THEN l.outstanding ELSE left,
                  loading |-> IF order = "both" /\ left = 0 THEN FALSE ELSE l.loading]
         w1 == Emit(l.w, event, MapTileError, seen)
         l2 == [l EXCEPT !.outstanding = left,
                         !.loading = IF left = 0 THEN FALSE ELSE @]
     IN  MapLayerChanges(i, [l2 EXCEPT !.w = IF left = 0
                                              THEN Emit(w1, "load", NoEvent, ViewOf(l2))
                                              ELSE w1])

\* Layer i, loading with no tile outstanding, stops loading and fires load.
MapLayerFinishLoading(i) ==
  /\ i \in 1..Len(mapTileLayers)
  /\ mapTileLayers[i].loading
  /\ mapTileLayers[i].outstanding = 0
  /\ LET l2 == [mapTileLayers[i] EXCEPT !.loading = FALSE]
     IN  MapLayerChanges(i, [l2 EXCEPT !.w = Emit(@, "load", NoEvent, ViewOf(l2))])

\* The timer of the waitForTiles call on layer i fires.
MapLayerWaitTimeout(i) ==
  /\ i \in 1..Len(mapTileLayers)
  /\ mapTileLayers[i].w.timer = "armed"
  /\ MapLayerChanges(i, [mapTileLayers[i] EXCEPT !.w = WaitTimedOut(@)])

ReadyNext ==
  \/ \E t \in TimeoutInputs : CallWaitForMapReady(t)
  \/ MapFiresLoad
  \/ ReadyTimeout
  \/ \E l \in MapLayerKinds : MapAddLayer(l)
  \/ \E i \in 1..MaxLayers, event \in {"tileload", "tileerror"}, order \in FieldOrders :
       MapLayerTileDone(i, event, order)
  \/ \E i \in 1..MaxLayers : MapLayerFinishLoading(i)
  \/ \E i \in 1..MaxLayers : MapLayerWaitTimeout(i)

(***************************************************************************)
(* Teardown: the patched map.remove() and cleanupTestMaps().               *)
(*                                                                         *)
(* A map draws its vector layers through one renderer. The code reads two  *)
(* fields of a renderer that hold the id of a requested animation frame:   *)
(* _frame and _redrawRequest. It reaches the renderer through a layer's    *)
(* _renderer field (layerRef) or as a layer of the map that is an instance *)
(* of the Canvas or SVG renderer class (rendererLayer). `seen` records, for *)
(* a removed map, the requests that were pending when the mapping          *)
(* library's own removal ran.                                              *)
(***************************************************************************)
MaxMaps == 2

FrameFields == {"frame", "redrawRequest"}

NoMap ==
  [state |-> "none", layerRef |-> FALSE, rendererLayer |-> FALSE,
   frame |-> FALSE, redrawRequest |-> FALSE, removedBy |-> "none", seen |-> {}]

\* how a new map holds its renderer: none, or reachable in either way
RendererKinds ==
  {[layerRef |-> FALSE, rendererLayer |-> FALSE],
   [layerRef |-> TRUE, rendererLayer |-> TRUE],
   [layerRef |-> TRUE, rendererLayer |-> FALSE],
   [layerRef |-> FALSE, rendererLayer |-> TRUE]}

Tracked == {trackedMaps[k] : k \in 1..Len(trackedMaps)}

\* the requests pending on the renderers of the maps in S
PendingOf(ms, S) ==
  {<<m, "frame">> : m \in {x \in S : ms[x].frame}} \cup
  {<<m, "redrawRequest">> : m \in {x \in S : ms[x].redrawRequest}}

\* patched remove, before the original: for each layer with a _renderer whose
\* _frame is set, cancelAnimFrame(renderer._frame); renderer._frame = null
CancelLayerRendererFrames(mp) ==
  IF mp.state = "live" /\ mp.layerRef /\ mp.frame
    THEN [mp EXCEPT !.frame = FALSE]
    ELSE mp

\* L.Map.prototype.remove as patched, called on map m by `by`; `scope` are the
\* maps whose pending requests are recorded at the time the original removal
\* runs. The original removal of a map that is already removed throws.
PatchedRemove(ms, m, by, scope) ==
  IF ms[m].state # "live" THEN ms
  ELSE LET ms1 == [ms EXCEPT ![m] = CancelLayerRendererFrames(@)]
           seen == PendingOf(ms1, scope)
       IN  [ms1 EXCEPT ![m].state = "removed", ![m].removedBy = by,
                       ![m].seen = seen,
                       ![m].frame = IF origCancels THEN FALSE ELSE @,
                       ![m].redrawRequest = IF origCancels THEN FALSE ELSE @]

\* cleanupTestMaps, first loop and the cancellation that follows: every
\* renderer reached through a layer's _renderer has its _redrawRequest
\* cancelled.
CancelRedrawRequests(ms, S) ==
  [m \in DOMAIN ms |->
     IF m \in S /\ ms[m].state = "live" /\ ms[m].layerRef /\ ms[m].redrawRequest
       THEN [ms[m] EXCEPT !.redrawRequest = FALSE]
       ELSE ms[m]]

\* cleanupTestMaps, second loop body for one map: _frame of the layers that
\* are Canvas or SVG renderers is cancelled
CancelRendererLayerFrames(mp) ==
  IF mp.state = "live" /\ mp.rendererLayer /\ mp.frame
    THEN [mp EXCEPT !.frame = FALSE]
    ELSE mp

RECURSIVE RemoveTracked(_, _, _)

\* cleanupTestMaps, second loop from the k-th tracked map on: cancel, then
\* map.remove() inside try/catch
RemoveTracked(ms, order, k) ==
  IF k > Len(order) THEN ms
  ELSE RemoveTracked(
         PatchedRemove([ms EXCEPT ![order[k]] = CancelRendererLayerFrames(@)],
                       order[k], "cleanup", {order[j] : j \in 1..Len(order)}),
         order, k + 1)

TeardownInit ==
  /\ maps = [m \in 1..MaxMaps |-> NoMap]
  /\ trackedMaps = <<>>
  /\ cleanupPc = "idle"
  /\ origCancels \in BOOLEAN

\* createTestMap(): a new map, added to trackedMaps. Test code creates its
\* maps before it awaits the cleanup.
CreateTestMap(m, kind) ==
  /\ cleanupPc \in {"idle", "done"}
  /\ m \in 1..MaxMaps
  /\ maps[m].state = "none"
  /\ \A x \in 1..(m - 1) : maps[x].state # "none"
  /\ maps' = [maps EXCEPT ![m] = [NoMap EXCEPT !.state = "live",
                                               !.layerRef = kind.layerRef,
                                               !.rendererLayer = kind.rendererLayer]]
  /\ trackedMaps' = Append(trackedMaps, m)
  /\ UNCHANGED <<cleanupPc, origCancels>>
  /\ UNCHANGED notTeardown

\* The renderer of a live map requests an animation frame and keeps its id.
RequestFrame(m, field) ==
  /\ m \in 1..MaxMaps
  /\ maps[m].state = "live"
  /\ maps[m].layerRef \/ maps[m].rendererLayer
  /\ ~maps[m][field]
  /\ maps' = [maps EXCEPT ![m][field] = TRUE]
  /\ UNCHANGED <<trackedMaps, cleanupPc, origCancels>>
  /\ UNCHANGED notTeardown

\* A requested frame arrives: the renderer's callback runs.
FrameFires(m, field) ==
  /\ m \in 1..MaxMaps
  /\ maps[m][field]
  /\ maps' = [maps EXCEPT ![m][field] = FALSE]
  /\ UNCHANGED <<trackedMaps, cleanupPc, origCancels>>
  /\ UNCHANGED notTeardown

\* map.remove() is called on a live map.
MapRemove(m) ==
  /\ m \in 1..MaxMaps
  /\ maps[m].state = "live"
  /\ cleanupPc \in {"idle", "done"}
  /\ maps' = PatchedRemove(maps, m, "caller", {m})
  /\ UNCHANGED <<trackedMaps, cleanupPc, origCancels>>
  /\ UNCHANGED notTeardown

\* cleanupTestMaps() is called: it runs up to its 50 ms delay.
CleanupStart ==
  /\ cleanupPc \in {"idle", "done"}
  /\ maps' = CancelRedrawRequests(maps, Tracked)
  /\ cleanupPc' = "grace"
  /\ UNCHANGED <<trackedMaps, origCancels>>
  /\ UNCHANGED notTeardown

\* After the delay: every tracked map is removed, trackedMaps is cleared and
\* the 10 ms delay begins.
CleanupRemoveAll ==
  /\ cleanupPc = "grace"
  /\ maps' = RemoveTracked(maps, trackedMaps, 1)
  /\ trackedMaps' = <<>>
  /\ cleanupPc' = "settle"
  /\ UNCHANGED origCancels
  /\ UNCHANGED notTeardown

\* After the last delay cleanupTestMaps returns.
CleanupFinish ==
  /\ cleanupPc = "settle"
  /\ cleanupPc' = "done"
  /\ UNCHANGED <<maps, trackedMaps, origCancels>>
  /\ UNCHANGED notTeardown

TeardownNext ==
  \/ \E m \in 1..MaxMaps, kind \in RendererKinds : CreateTestMap(m, kind)
  \/ \E m \in 1..MaxMaps, field \in FrameFields : RequestFrame(m, field)
  \/ \E m \in 1..MaxMaps, field \in FrameFields : FrameFires(m, field)
  \/ \E m \in 1..MaxMaps : MapRemove(m)
  \/ CleanupStart
  \/ CleanupRemoveAll
  \/ CleanupFinish

(***************************************************************************)
(* initializeEnvironment(options).                                         *)
(*                                                                         *)
(* The module calls it once when it is loaded; callers may call it again.  *)
(* The DOM is the host's (a test framework's) when both document and       *)
(* window exist, a new JSDOM otherwise. The counters say how many times    *)
(* each global was built or patched.                                       *)
(***************************************************************************)
MaxInitCalls == 3

\* HeadlessOptions as callers give them
OptionInputs == [mapSize : {"default", "800x600"}, fontAssetBasePath : {"none", "/fonts"}]

\* what initializeEnvironment builds and patches
DomState ==
  [L |-> globalL, document |-> globalDocument, jsdomBuilt |-> jsdomBuilt,
   srcSetterPatches |-> srcSetterPatches,
   createElementPatches |-> createElementPatches,
   mapPrototypePatches |-> mapPrototypePatches]

\* Before the first call: other code may have published the library as
\* global L already (unpatched), and a host DOM may exist.
EnvInit ==
  /\ globalL \in {"none", "leaflet"}
  /\ globalDocument \in {"none", "host"}
  /\ jsdomBuilt = 0
  /\ srcSetterPatches = 0
  /\ createElementPatches = 0
  /\ mapPrototypePatches = 0
  /\ fontsRegistered = FALSE
  /\ fontBasePath = "none"
  /\ initLog = <<>>

\* the body of initializeEnvironment past the cached-instance check, applied
\* to DOM state d: the DOM is reused or built, the image src setter and
\* document.createElement are patched, Leaflet is loaded and published as
\* global L, and patchMapPrototype runs
BuildEnvironment(d) ==
  [d EXCEPT !.L = "leaflet",
            !.document = IF @ = "none" THEN "jsdom" ELSE @,
            !.jsdomBuilt = IF d.document = "none" THEN @ + 1 ELSE @,
            !.srcSetterPatches = @ + 1,
            !.createElementPatches = @ + 1,
            !.mapPrototypePatches = @ + 1]

\* The loads one `src` assignment starts: each patch of the setter calls the
\* setter it found (originalSrcDescriptor.set) and then starts a load of its
\* own, each load ending in one load or error event.
LoadsPerSrcAssignment(d) == d.srcSetterPatches

\* L.Map.prototype of namespace `ns` has setSize, saveImage and toBuffer:
\* patchMapPrototype has run on it.
HasHeadlessOperations(ns, d) == ns # "none" /\ d.mapPrototypePatches > 0

\* an initializer without the cached-instance check
EnvironmentAfterAlwaysBuild(d) == BuildEnvironment(d)

\* if ((global as any).L) return (global as any).L; else build
EnvironmentAfter(d) == IF d.L # "none" THEN d ELSE BuildEnvironment(d)

\* initializeEnvironment(options) is called: fonts are ensured first (once per
\* process), then the cached namespace is returned or the environment built.
InitializeEnvironment(options) ==
  /\ Len(initLog) < MaxInitCalls
  /\ \/ initLog # <<>>
     \/ options = [mapSize |-> "default", fontAssetBasePath |-> "none"]
  /\ fontsRegistered' = TRUE
  /\ fontBasePath' = IF fontsRegistered THEN fontBasePath ELSE options.fontAssetBasePath
  /\ LET d == EnvironmentAfter(DomState)
     IN  /\ globalL' = d.L
         /\ globalDocument' = d.document
         /\ jsdomBuilt' = d.jsdomBuilt
         /\ srcSetterPatches' = d.srcSetterPatches
         /\ createElementPatches' = d.createElementPatches
         /\ mapPrototypePatches' = d.mapPrototypePatches
         /\ initLog' = Append(initLog, [options |-> options, before |-> DomState,
                                        after |-> d, returned |-> d.L])
  /\ UNCHANGED notEnv

\* A test harness restores the globals it saved: global L is deleted.
DeleteGlobalL ==
  /\ globalL # "none"
  /\ globalL' = "none"
  /\ UNCHANGED <<globalDocument, jsdomBuilt, srcSetterPatches, createElementPatches,
                 mapPrototypePatches, fontsRegistered, fontBasePath, initLog>>
  /\ UNCHANGED notEnv

EnvNext ==
  \/ \E options \in OptionInputs : InitializeEnvironment(options)
  \/ DeleteGlobalL

(***************************************************************************)
(* Polyfills: ensureUndiciPolyfills, ensureReadableStream, their reset     *)
(* helpers, and the setTimeout / clearTimeout wrappers.                    *)
(*                                                                         *)
(* A global is "absent", the "host"'s own, or the "polyfill". Each run of  *)
(* the body of ensureUndiciPolyfills puts one more wrapper layer, with its *)
(* own wrappedTimerIds map, around setTimeout and clearTimeout. The        *)
(* source holds two versions of ensureReadableStream: "flagged" keeps a    *)
(* readableStreamEnsured flag, "plain" assigns the global on every call.   *)
(***************************************************************************)
MaxEnsure == 3

MaxTimers == 2

\* the hosts the module is loaded in: Node itself, and two jsdom-like hosts
\* whose timers are numbers
HostProfiles ==
  {[TextEncoder |-> "host", TextDecoder |-> "host", BlobArrayBuffer |-> "host",
    setImmediate |-> "host", clearImmediate |-> "host",
    markResourceTiming |-> "host", timerWraps |-> 0, timerKind |-> "object"],
   [TextEncoder |-> "absent", TextDecoder |-> "absent", BlobArrayBuffer |-> "absent",
    setImmediate |-> "absent", clearImmediate |-> "absent",
    markResourceTiming |-> "absent", timerWraps |-> 0, timerKind |-> "number"],
   [TextEncoder |-> "host", TextDecoder |-> "absent", BlobArrayBuffer |-> "noBlob",
    setImmediate |-> "host", clearImmediate |-> "absent",
    markResourceTiming |-> "noPerformance", timerWraps |-> 0, timerKind |-> "number"]}

\* the body of ensureUndiciPolyfills past its flag check, on globals g; util
\* says whether require('node:util') is at hand with its codec classes
ApplyUndiciPolyfills(g, util) ==
  LET codecMissing == g.TextEncoder = "absent" \/ g.TextDecoder = "absent"
  IN  [g EXCEPT
        !.TextEncoder = IF codecMissing /\ util /\ @ = "absent" THEN "polyfill" ELSE @,
        !.TextDecoder = IF codecMissing /\ util /\ @ = "absent" THEN "polyfill" ELSE @,
        !.BlobArrayBuffer = IF @ = "absent" THEN "polyfill" ELSE @,
        !.setImmediate = IF @ = "absent" THEN "polyfill" ELSE @,
        !.clearImmediate = IF @ = "absent" THEN "polyfill" ELSE @,
        !.timerWraps = @ + 1,
        !.markResourceTiming = IF @ = "absent" THEN "polyfill" ELSE @]

\* the handle the patched setTimeout returns for timer t: a number of the host
\* is wrapped by the innermost layer, an object of the host is passed on
HandleOf(t) ==
  IF globals.timerKind = "number" /\ globals.timerWraps > 0
    THEN [form |-> "wrapper", t |-> t]
    ELSE [form |-> globals.timerKind, t |-> t]

\* valueOf() / Symbol.toPrimitive of a handle: the host's numeric id
NumberOf(h) == [form |-> "number", t |-> h.t]

\* the host's clearTimeout: the argument is coerced to the timer's id
HostClearTimeout(arg) == arg.t

RECURSIVE ClearTimeoutAt(_, _, _)

\* a wrapper that forgets the handle without clearing the timer
ClearWrappedForgets(k, ids, t) ==
  [ids |-> [ids EXCEPT ![k] = @ \ {t}], cleared |-> 0]

\* wrappedTimerIds.has(id): delete the entry, originalClearTimeout(numericId)
ClearWrapped(k, ids, t) ==
  ClearTimeoutAt(k - 1, [ids EXCEPT ![k] = @ \ {t}], [form |-> "number", t |-> t])

\* clearTimeout(arg) as wrapper layer k sees it (layer 0 is the host): the maps
\* it leaves and the timer it clears
ClearTimeoutAt(k, ids, arg) ==
  IF k = 0 THEN [ids |-> ids, cleared |-> HostClearTimeout(arg)]
  ELSE IF arg.form = "wrapper" /\ arg.t \in ids[k] THEN ClearWrapped(k, ids, arg.t)
  ELSE ClearTimeoutAt(k - 1, ids, arg)

PolyfillInit ==
  /\ globals \in HostProfiles
  /\ utilAvailable \in BOOLEAN
  /\ undiciPolyfillsEnsured = FALSE
  /\ undiciCalls = 0
  /\ firstApplied = globals
  /\ rsVariant \in {"flagged", "plain"}
  /\ readableStreamEnsured = FALSE
  /\ globalReadableStream \in {"absent", "host"}
  /\ rsAtLastReturn = "never"
  /\ timers = <<>>
  /\ wrappedTimerIds = <<>>

\* ensureUndiciPolyfills()
EnsureUndiciPolyfills ==
  /\ undiciCalls < MaxEnsure
  /\ undiciCalls' = undiciCalls + 1
  /\ undiciPolyfillsEnsured' = TRUE
  /\ globals' = IF undiciPolyfillsEnsured THEN globals
                ELSE ApplyUndiciPolyfills(globals, utilAvailable)
  /\ wrappedTimerIds' = IF undiciPolyfillsEnsured THEN wrappedTimerIds
                        ELSE Append(wrappedTimerIds, {})
  /\ firstApplied' = IF undiciCalls = 0 THEN globals' ELSE firstApplied
  /\ UNCHANGED <<utilAvailable, rsVariant, readableStreamEnsured,
                 globalReadableStream, rsAtLastReturn, timers>>
  /\ UNCHANGED notPolyfill

\* resetUndiciPolyfillsForTests()
ResetUndiciPolyfillsForTests ==
  /\ undiciPolyfillsEnsured
  /\ undiciPolyfillsEnsured' = FALSE
  /\ UNCHANGED <<globals, utilAvailable, undiciCalls, firstApplied, rsVariant,
                 readableStreamEnsured, globalReadableStream, rsAtLastReturn,
                 timers, wrappedTimerIds>>
  /\ UNCHANGED notPolyfill

\* ensureReadableStream(), in either version
EnsureReadableStream ==
  /\ IF rsVariant = "plain"
       THEN /\ globalReadableStream' = "polyfill"
            /\ UNCHANGED readableStreamEnsured
       ELSE /\ readableStreamEnsured' = TRUE
            /\ globalReadableStream' =
                 IF ~readableStreamEnsured /\ globalReadableStream = "absent"
                   THEN "polyfill" ELSE globalReadableStream
  /\ rsAtLastReturn' = globalReadableStream'
  /\ UNCHANGED <<globals, utilAvailable, undiciPolyfillsEnsured, undiciCalls,
                 firstApplied, rsVariant, timers, wrappedTimerIds>>
  /\ UNCHANGED notPolyfill

\* resetReadableStreamPolyfillForTests()
ResetReadableStreamPolyfillForTests ==
  /\ readableStreamEnsured
  /\ readableStreamEnsured' = FALSE
  /\ UNCHANGED <<globals, utilAvailable, undiciPolyfillsEnsured, undiciCalls,
                 firstApplied, rsVariant, globalReadableStream, rsAtLastReturn,
                 timers, wrappedTimerIds>>
  /\ UNCHANGED notPolyfill

\* A test deletes globalThis.ReadableStream.
RemoveReadableStream ==
  /\ globalReadableStream # "absent"
  /\ globalReadableStream' = "absent"
  /\ rsAtLastReturn' = "never"
  /\ UNCHANGED <<globals, utilAvailable, undiciPolyfillsEnsured, undiciCalls,
                 firstApplied, rsVariant, readableStreamEnsured, timers,
                 wrappedTimerIds>>
  /\ UNCHANGED notPolyfill

\* setTimeout(callback, delay) through the wrappers: the host schedules timer
\* t and the innermost wrapper records the handle it makes for a number.
SetTimeout ==
  /\ Len(timers) < MaxTimers
  /\ LET t == Len(timers) + 1
     IN  /\ timers' = Append(timers, [state |-> "scheduled", handle |-> HandleOf(t),
                                      cleared |-> FALSE, ranAfterClear |-> FALSE])
         /\ wrappedTimerIds' = IF HandleOf(t).form = "wrapper"
                                 THEN [wrappedTimerIds EXCEPT ![1] = @ \cup {t}]
                                 ELSE wrappedTimerIds
  /\ UNCHANGED <<globals, utilAvailable, undiciPolyfillsEnsured, undiciCalls,
                 firstApplied, rsVariant, readableStreamEnsured,
                 globalReadableStream, rsAtLastReturn>>
  /\ UNCHANGED notPolyfill

\* clearTimeout(arg), with arg the handle of timer t or its numeric value.
ClearTimeout(t, numeric) ==
  /\ t \in 1..Len(timers)
  /\ LET arg == IF numeric THEN NumberOf(timers[t].handle) ELSE timers[t].handle
         r == ClearTimeoutAt(globals.timerWraps, wrappedTimerIds, arg)
     IN  /\ wrappedTimerIds' = r.ids
         /\ timers' = [i \in 1..Len(timers) |->
              LET x == IF i = t THEN [timers[i] EXCEPT !.cleared = TRUE] ELSE timers[i]
              IN  IF i = r.cleared /\ x.state = "scheduled"
                    THEN [x EXCEPT !.state = "cancelled"] ELSE x]
  /\ UNCHANGED <<globals, utilAvailable, undiciPolyfillsEnsured, undiciCalls,
                 firstApplied, rsVariant, readableStreamEnsured,
                 globalReadableStream, rsAtLastReturn>>
  /\ UNCHANGED notPolyfill

\* The delay of a scheduled timer passes: its callback runs.
TimerFires(t) ==
  /\ t \in 1..Len(timers)
  /\ timers[t].state = "scheduled"
  /\ timers' = [timers EXCEPT ![t].state = "fired",
                              ![t].ranAfterClear = timers[t].cleared]
  /\ UNCHANGED <<globals, utilAvailable, undiciPolyfillsEnsured, undiciCalls,
                 firstApplied, rsVariant, readableStreamEnsured,
                 globalReadableStream, rsAtLastReturn, wrappedTimerIds>>
  /\ UNCHANGED notPolyfill

PolyfillNext ==
  \/ EnsureUndiciPolyfills
  \/ ResetUndiciPolyfillsForTests
  \/ EnsureReadableStream
  \/ ResetReadableStreamPolyfillForTests
  \/ RemoveReadableStream
  \/ SetTimeout
  \/ \E t \in 1..MaxTimers, numeric \in BOOLEAN : ClearTimeout(t, numeric)
  \/ \E t \in 1..MaxTimers : TimerFires(t)

(***************************************************************************)
(* Map size: the patched initialize, getSize and setSize of one map.       *)
(*                                                                         *)
(* A size is a record [x, y]; ZeroSize is what a container without layout  *)
(* reports. lastSet and lastGet remember the arguments of the last setSize *)
(* and the result of the last getSize since then.                          *)
(***************************************************************************)
ZeroSize == [x |-> 0, y |-> 0]

Dims == {[x |-> 320, y |-> 240], [x |-> 800, y |-> 600]}

\* DEFAULT_OPTIONS.mapSize
DefaultMapSize == [x |-> 1024, y |-> 1024]

NoGet == [valid |-> FALSE, recomputed |-> FALSE, value |-> ZeroSize]

NoSet == [valid |-> FALSE, value |-> ZeroSize]

SizeInit ==
  /\ optionsMapSize \in {DefaultMapSize, [x |-> 256, y |-> 256]}
  /\ mapCreated = FALSE
  /\ mapSizeOption = ZeroSize
  /\ containerClient = ZeroSize
  /\ containerRect = ZeroSize
  /\ hasSize = FALSE
  /\ size = ZeroSize
  /\ sizeChanged = FALSE
  /\ hasHeadlessSize = FALSE
  /\ headlessSize = ZeroSize
  /\ lastSet = NoSet
  /\ lastGet = NoGet

\* a recomputation from the initializer's options, not from the map's own size
ComputeSizeFromOptions(has, hs) == optionsMapSize

\* const size = this._headlessSize ?? options.mapSize
ComputeSize(has, hs) == IF has THEN hs ELSE optionsMapSize

\* getSize(): the cached point, recomputed when there is none or it is dirty;
\* the state it leaves and the point it returns
GetSizeResult ==
  LET recompute == ~hasSize \/ sizeChanged
      v == IF recompute THEN ComputeSize(hasHeadlessSize, headlessSize) ELSE size
  IN  [recomputed |-> recompute, value |-> v]

\* L.map(container, opts): the patched initialize. The original initialize
\* calls getSize when opts set a view, before _headlessSize is assigned.
MapInitialize(opt, withView) ==
  /\ ~mapCreated
  /\ mapCreated' = TRUE
  /\ mapSizeOption' = opt
  /\ hasSize' = withView
  /\ size' = IF withView THEN ComputeSize(FALSE, ZeroSize) ELSE size
  /\ sizeChanged' = FALSE
  /\ hasHeadlessSize' = TRUE
  /\ headlessSize' = optionsMapSize
  /\ UNCHANGED <<optionsMapSize, containerClient, containerRect, lastSet, lastGet>>
  /\ UNCHANGED notSize

\* map.setSize(width, height)
SetSize(d) ==
  /\ mapCreated
  /\ size' = d
  /\ hasSize' = TRUE
  /\ sizeChanged' = FALSE
  /\ headlessSize' = d
  /\ hasHeadlessSize' = TRUE
  /\ mapSizeOption' = d
  /\ lastSet' = [valid |-> TRUE, value |-> d]
  /\ lastGet' = NoGet
  /\ UNCHANGED <<optionsMapSize, mapCreated, containerClient, containerRect>>
  /\ UNCHANGED notSize

\* map.getSize()
GetSize ==
  /\ mapCreated
  /\ size' = GetSizeResult.value
  /\ hasSize' = TRUE
  /\ sizeChanged' = FALSE
  /\ lastGet' = [valid |-> TRUE, recomputed |-> GetSizeResult.recomputed,
                 value |-> GetSizeResult.value]
  /\ UNCHANGED <<optionsMapSize, mapCreated, mapSizeOption, containerClient,
                 containerRect, hasHeadlessSize, headlessSize, lastSet>>
  /\ UNCHANGED notSize

\* The mapping library marks the size dirty (a resize, invalidateSize).
MarkSizeDirty ==
  /\ mapCreated
  /\ ~sizeChanged
  /\ sizeChanged' = TRUE
  /\ lastGet' = NoGet
  /\ UNCHANGED <<optionsMapSize, mapCreated, mapSizeOption, containerClient,
                 containerRect, hasSize, size, hasHeadlessSize, headlessSize, lastSet>>
  /\ UNCHANGED notSize

\* The container's clientWidth / clientHeight are given values.
SetContainerClient(d) ==
  /\ mapCreated
  /\ containerClient # d
  /\ containerClient' = d
  /\ lastGet' = NoGet
  /\ UNCHANGED <<optionsMapSize, mapCreated, mapSizeOption, containerRect, hasSize,
                 size, sizeChanged, hasHeadlessSize, headlessSize, lastSet>>
  /\ UNCHANGED notSize

\* The container's getBoundingClientRect is given a width and height.
SetContainerRect(d) ==
  /\ mapCreated
  /\ containerRect # d
  /\ containerRect' = d
  /\ lastGet' = NoGet
  /\ UNCHANGED <<optionsMapSize, mapCreated, mapSizeOption, containerClient, hasSize,
                 size, sizeChanged, hasHeadlessSize, headlessSize, lastSet>>
  /\ UNCHANGED notSize

SizeNext ==
  \/ \E opt \in Dims \cup {ZeroSize}, withView \in BOOLEAN : MapInitialize(opt, withView)
  \/ \E d \in Dims : SetSize(d)
  \/ GetSize
  \/ MarkSizeDirty
  \/ \E d \in Dims \cup {ZeroSize} : SetContainerClient(d)
  \/ \E d \in Dims \cup {ZeroSize} : SetContainerRect(d)

(***************************************************************************)
(* The image loader: loadImageSource and its helpers.  A string is the     *)
(* sequence of its characters; indexes are zero-based as in the code.      *)
(***************************************************************************)
\* the longest tail of a source
MaxRestLen == 2

Https == <<"h", "t", "t", "p", "s", ":", "/", "/">>

Http == <<"h", "t", "t", "p", ":", "/", "/">>

DataPrefix == <<"d", "a", "t", "a", ":">>

FilePrefix == <<"f", "i", "l", "e", ":", "/", "/">>

Base64Marker == <<";", "b", "a", "s", "e", "6", "4", ",">>

\* what a source may begin with: the prefixes, an upper-case scheme, the
\* encoding marker without its comma, or nothing.
SrcParts ==
  {Https, Http, DataPrefix, FilePrefix, <<"H", "T", "T", "P", ":", "/", "/">>,
   SubSeq(Base64Marker, 1, 7), <<>>}

\* what may follow: a prefix again, the encoding marker, or nothing.
SrcInner == {Http, FilePrefix, SubSeq(Base64Marker, 1, 7), <<>>}

SrcTails == UNION {[1..k -> {"a", ",", "?"}] : k \in 0..MaxRestLen}

LoaderSrcs == {p \o q \o r : p \in SrcParts, q \in SrcInner, r \in SrcTails}

StartsWithAnywhere(s, p) ==
  \E k \in 0..(Len(s) - Len(p)) : SubSeq(s, k + 1, k + Len(p)) = p

StartsWith(s, p) == Len(s) >= Len(p) /\ SubSeq(s, 1, Len(p)) = p

IndexOf(s, c) ==
  IF \E i \in 1..Len(s) : s[i] = c
    THEN (CHOOSE i \in 1..Len(s) : s[i] = c /\ \A j \in 1..(i - 1) : s[j] # c) - 1
    ELSE -1

LastIndexOf(s, p, from) ==
  LET hits == {k \in 0..(Len(s) - Len(p)) : k <= from /\ SubSeq(s, k + 1, k + Len(p)) = p}
  IN  IF hits = {} THEN -1 ELSE CHOOSE k \in hits : \A h \in hits : h <= k

Substring(s, start) == SubSeq(s, start + 1, Len(s))

StripQuerystring(url) ==
  LET queryIndex == IndexOf(url, "?")
  IN  IF queryIndex # -1 THEN SubSeq(url, 1, queryIndex) ELSE url

Statuses == {200, 204, 304, 404, 500}

ResponseOk(status) == status >= 200 /\ status <= 299

LoaderIdle ==
  [src |-> <<>>, kind |-> "none", stage |-> "idle", target |-> <<>>,
   isBase64 |-> FALSE, status |-> 0, access |-> "none", error |-> "none"]

LoaderInit == loader = LoaderIdle

Reject(l, error) == [l EXCEPT !.stage = "rejected", !.error = error]

\* loadFromUrl up to its first await
LoadFromUrl(l, url) == [l EXCEPT !.stage = "fetching", !.target = url]

\* loadFromFile up to its first await
LoadFromFile(l, path) ==
  [l EXCEPT !.stage = "access", !.target = StripQuerystring(path)]

LoadFromData(l, src) ==
  LET commaIndex == IndexOf(src, ",")
  IN  IF commaIndex = -1
        THEN Reject(l, "Invalid data URI provided")
        ELSE [l EXCEPT !.stage = "decoding",
                       !.isBase64 = LastIndexOf(src, Base64Marker, commaIndex) # -1,
                       !.target = Substring(src, commaIndex + 1)]

Dispatch(src) ==
  LET l == [LoaderIdle EXCEPT !.src = src]
  IN  IF StartsWith(src, Https) \/ StartsWith(src, Http)
        THEN LoadFromUrl([l EXCEPT !.kind = "network"], src)
      ELSE IF StartsWith(src, DataPrefix)
        THEN LoadFromData([l EXCEPT !.kind = "data"], src)
      ELSE IF StartsWith(src, FilePrefix)
        THEN LoadFromFile([l EXCEPT !.kind = "file"], Substring(src, 7))
      ELSE LoadFromFile([l EXCEPT !.kind = "path"], src)

\* A call of loadImageSource, up to its first await.  Calls share no state,
\* so one call at a time is followed.
LoadImageSource(src) ==
  /\ loader.stage \in {"idle", "resolved", "rejected"}
  /\ loader' = Dispatch(src)
  /\ UNCHANGED notLoader

\* The response arrives: a status outside 200..299 rejects the call.
FetchResponds(status) ==
  /\ loader.stage = "fetching"
  /\ loader' = IF ResponseOk(status)
                 THEN [loader EXCEPT !.status = status, !.stage = "decoding"]
                 ELSE Reject([loader EXCEPT !.status = status], "Failed to fetch image")
  /\ UNCHANGED notLoader

\* fetch itself rejects (no connection): the rejection passes through.
FetchThrows ==
  /\ loader.stage = "fetching"
  /\ loader' = Reject(loader, "fetch failed")
  /\ UNCHANGED notLoader

\* fs.access settles.
FileAccess(exists) ==
  /\ loader.stage = "access"
  /\ loader' = IF exists
                 THEN [loader EXCEPT !.access = "found", !.stage = "reading"]
                 ELSE Reject([loader EXCEPT !.access = "missing"], "Could not find image")
  /\ UNCHANGED notLoader

\* fs.readFile settles; the file may have gone since it was looked for.
FileRead(ok) ==
  /\ loader.stage = "reading"
  /\ loader' = IF ok THEN [loader EXCEPT !.stage = "decoding"]
                     ELSE Reject(loader, "readFile failed")
  /\ UNCHANGED notLoader

\* bufferToImage: the decoder accepts the bytes or not.
BufferToImage(ok) ==
  /\ loader.stage = "decoding"
  /\ loader' = IF ok THEN [loader EXCEPT !.stage = "resolved"]
                     ELSE Reject(loader, "decode failed")
  /\ UNCHANGED notLoader

LoaderNext ==
  \/ \E src \in LoaderSrcs : LoadImageSource(src)
  \/ \E status \in Statuses : FetchResponds(status)
  \/ FetchThrows
  \/ \E exists \in BOOLEAN : FileAccess(exists)
  \/ \E ok \in BOOLEAN : FileRead(ok)
  \/ \E ok \in BOOLEAN : BufferToImage(ok)

(***************************************************************************)
(* Font discovery: ensureDefaultFontsRegistered and resolveFontPaths.  A   *)
(* path is named by where it was found, not by its text.                   *)
(***************************************************************************)
\* the font variants looked for in the font-family package
MaxVariants == 2

\* the candidate locations of resolveBundledFontPath, in search order
BundledSlots ==
  <<"direct", "inBase", "assets", "parentAssets", "grandparentAssets", "cwdAssets">>

\* an override path: none, a font file (it has an extension), or a directory
BasePaths == {"none", "file", "dir"}

FontHosts ==
  [variants : [1..MaxVariants -> {"none", "woff2", "woff"}],
   typeface : BOOLEAN,
   existing : SUBSET {BundledSlots[i] : i \in 1..Len(BundledSlots)}]

NoFontCall == [done |-> FALSE, explicit |-> "none", env |-> "none", paths |-> <<>>, warned |-> FALSE]

FontPath(from, base, slot, n) == [from |-> from, base |-> base, slot |-> slot, n |-> n]

FontInit ==
  /\ fontHost \in FontHosts
  /\ fontEnv \in BasePaths
  /\ fontCall = NoFontCall

\* one resolved path per variant that has a file, woff2 before woff
ResolveFontsourceVariants(h) ==
  LET all == [i \in 1..MaxVariants |-> FontPath("fontsource", "package", h.variants[i], i)]
  IN  SelectSeq(all, LAMBDA f : f.slot # "none")

ResolveTypefaceFont(h) ==
  IF h.typeface THEN <<FontPath("typeface", "package", "woff", 0)>> ELSE <<>>

\* the first candidate that exists; the base directory is the explicit path,
\* else the configured one, else the package's own directory
ResolveBundledFontPath(explicit, env, h) ==
  LET base == IF explicit # "none" THEN "explicit" ELSE IF env # "none" THEN "env" ELSE "package"
      baseKind == IF explicit # "none" THEN explicit ELSE env
      searched(slot) ==
        CASE slot = "direct" -> explicit = "file"
          [] slot = "inBase" -> explicit # "none"
          [] OTHER -> TRUE
      \* nothing lies below a base that is a file
      exists(slot) ==
        /\ slot \in h.existing
        /\ ~(baseKind = "file" /\ slot \in {"inBase", "assets"})
      found == SelectSeq(BundledSlots, LAMBDA slot : searched(slot) /\ exists(slot))
  IN  IF found = <<>> THEN <<>> ELSE <<FontPath("bundled", base, found[1], 0)>>

\* resolveFontPaths: the package variants, else the legacy package, else the
\* bundled locations (where the override is looked at)
ResolveFontPaths(explicit, env, h) ==
  LET preferred == ResolveFontsourceVariants(h)
      legacy == ResolveTypefaceFont(h)
  IN  IF preferred # <<>> THEN preferred
      ELSE IF legacy # <<>> THEN legacy
      ELSE ResolveBundledFontPath(explicit, env, h)

\* ensureDefaultFontsRegistered(explicitBasePath); a later call returns at once.
EnsureDefaultFontsRegistered(explicit) ==
  /\ fontCall' =
       IF fontCall.done THEN fontCall
       ELSE LET fontPaths == ResolveFontPaths(explicit, fontEnv, fontHost)
            IN  [done |-> TRUE, explicit |-> explicit, env |-> fontEnv,
                 paths |-> fontPaths, warned |-> fontPaths = <<>>]
  /\ UNCHANGED <<fontHost, fontEnv>>
  /\ UNCHANGED notFont

\* process.env.LEAFLET_NODE_FONT_BASE_PATH is assigned
SetFontBasePathEnv(p) ==
  /\ fontEnv' = p
  /\ UNCHANGED <<fontHost, fontCall>>
  /\ UNCHANGED notFont

FontNext ==
  \/ \E explicit \in BasePaths : EnsureDefaultFontsRegistered(explicit)
  \/ \E p \in BasePaths : SetFontBasePathEnv(p)

FontUnused ==
  /\ fontHost = [variants |-> [i \in 1..MaxVariants |-> "none"], typeface |-> FALSE, existing |-> {}]
  /\ fontEnv = "none"
  /\ fontCall = NoFontCall

(***************************************************************************)
(* patchDomEvent: the wrapper around L.DomEvent.off.  An error message is  *)
(* the sequence of its words.                                              *)
(***************************************************************************)
\* the calls of off that are followed
MaxOffCalls == 2

\* what the original off may throw: nothing, or an error of some class with
\* some message
ThrownErrors ==
  {[type |-> "none", message |-> <<>>]} \cup
  [type : {"TypeError", "RangeError", "Error"},
   message : {<<"obj", "detachEvent", "is", "not a function">>,
              <<"handler", "call", "is", "not a function">>,
              <<"Cannot read properties of undefined, reading", "detachEvent">>,
              <<"Maximum call stack size exceeded">>,
              <<>>}]

\* String.prototype.includes
Includes(s, p) == \E k \in 0..(Len(s) - Len(p)) : SubSeq(s, k + 1, k + Len(p)) = p

DomEventInit ==
  /\ domEvent \in [exists : BOOLEAN, patched : {FALSE}, wraps : {0},
                   removeListenerIsOff : BOOLEAN, removeListenerWrapped : {FALSE}]
  /\ offLog = <<>>

\* the catch block of the wrapper: what becomes of error e
CaughtByOff(e) ==
  IF e.type = "TypeError"
       /\ (Includes(e.message, <<"detachEvent">>) \/ Includes(e.message, <<"not a function">>))
    THEN "swallowed"
    ELSE "thrown"

\* patchDomEvent(L)
PatchDomEvent ==
  /\ domEvent' =
       IF ~domEvent.exists \/ domEvent.patched THEN domEvent
       ELSE [domEvent EXCEPT !.patched = TRUE, !.wraps = @ + 1,
                             !.removeListenerWrapped = domEvent.removeListenerIsOff]
  /\ UNCHANGED offLog
  /\ UNCHANGED notDomEvent

\* L.DomEvent.off(...) or L.DomEvent.removeListener(...) is called and the
\* original routine throws e (or nothing).
DomEventOff(via, e) ==
  /\ domEvent.exists
  /\ Len(offLog) < MaxOffCalls
  /\ LET wrapped == IF via = "off" THEN domEvent.patched ELSE domEvent.removeListenerWrapped
         outcome == IF e.type = "none" THEN "returned"
                    ELSE IF wrapped THEN CaughtByOff(e) ELSE "thrown"
     IN  offLog' = Append(offLog, [via |-> via, wrapped |-> wrapped, error |-> e,
                                   outcome |-> outcome])
  /\ UNCHANGED domEvent
  /\ UNCHANGED notDomEvent

DomEventNext ==
  \/ PatchDomEvent
  \/ \E via \in {"off", "removeListener"}, e \in ThrownErrors : DomEventOff(via, e)

DomEventUnused ==
  /\ domEvent = [exists |-> TRUE, patched |-> FALSE, wraps |-> 0,
                 removeListenerIsOff |-> TRUE, removeListenerWrapped |-> FALSE]
  /\ offLog = <<>>

(***************************************************************************)
(* The proxy dispatcher of the image loader.  The agent built from the URL *)
(* of a variable is named by that variable.                                *)
(***************************************************************************)
\* the network loads that are followed
MaxFetches == 2

\* the variables in the order resolveProxyDispatcher reads them
ProxyVars ==
  <<"HTTPS_PROXY", "https_proxy", "HTTP_PROXY", "http_proxy", "ALL_PROXY", "all_proxy">>

ProxyVarSet == {ProxyVars[i] : i \in 1..Len(ProxyVars)}

\* a variable is unset or empty, holds a proxy URL, or holds text that is no URL
ProxyValues == {"", "url", "bad"}

ProxyInit ==
  /\ proxyEnv = [v \in ProxyVarSet |-> ""]
  /\ cachedDispatcher = "undefined"
  /\ proxyFetches = 0
  /\ lastDispatcher = "none"

\* env.HTTPS_PROXY || env.https_proxy || ... || null
ProxyUrlVar(env) ==
  LET set == SelectSeq(ProxyVars, LAMBDA v : env[v] # "")
  IN  IF set = <<>> THEN "null" ELSE set[1]

\* a resolver that reads the environment on every call
ResolveProxyDispatcherUncached(cached, env) ==
  LET v == ProxyUrlVar(env)
  IN  IF v = "null" THEN [cache |-> "null", result |-> "null"]
      ELSE IF env[v] = "bad" THEN [cache |-> cached, result |-> "threw"]
      ELSE [cache |-> v, result |-> v]

\* resolveProxyDispatcher(): the cache it leaves and what it returns; the
\* ProxyAgent constructor throws on text that is no URL, and nothing is cached
ResolveProxyDispatcher(cached, env) ==
  IF cached # "undefined" THEN [cache |-> cached, result |-> cached]
  ELSE LET v == ProxyUrlVar(env)
       IN  IF v = "null" THEN [cache |-> "null", result |-> "null"]
           ELSE IF env[v] = "bad" THEN [cache |-> cached, result |-> "threw"]
           ELSE [cache |-> v, result |-> v]

\* process.env[v] = value (or delete process.env[v])
SetProxyEnv(v, value) ==
  /\ proxyEnv[v] # value
  /\ proxyEnv' = [proxyEnv EXCEPT ![v] = value]
  /\ UNCHANGED <<cachedDispatcher, proxyFetches, lastDispatcher>>
  /\ UNCHANGED notProxy

\* loadFromUrl: the dispatcher is resolved and handed to fetch
ProxyLoadFromUrl ==
  /\ proxyFetches < MaxFetches
  /\ LET r == ResolveProxyDispatcher(cachedDispatcher, proxyEnv)
     IN  /\ cachedDispatcher' = r.cache
         /\ lastDispatcher' = r.result
  /\ proxyFetches' = proxyFetches + 1
  /\ UNCHANGED proxyEnv
  /\ UNCHANGED notProxy

ProxyNext ==
  \/ \E v \in ProxyVarSet, value \in ProxyValues : SetProxyEnv(v, value)
  \/ ProxyLoadFromUrl

ProxyUnused == ProxyInit

(***************************************************************************)
(* Specifications, one per component: the other components stay as they    *)
(* are before any use (no src assigned, no export called, no wait begun).  *)
(***************************************************************************)
LoaderUnused == loader = LoaderIdle

SizeUnused ==
  /\ optionsMapSize = DefaultMapSize
  /\ mapCreated = FALSE
  /\ mapSizeOption = ZeroSize
  /\ containerClient = ZeroSize
  /\ containerRect = ZeroSize
  /\ hasSize = FALSE
  /\ size = ZeroSize
  /\ sizeChanged = FALSE
  /\ hasHeadlessSize = FALSE
  /\ headlessSize = ZeroSize
  /\ lastSet = NoSet
  /\ lastGet = NoGet

PolyfillUnused ==
  /\ globals = CHOOSE g \in HostProfiles : g.timerKind = "object"
  /\ utilAvailable = TRUE
  /\ undiciPolyfillsEnsured = FALSE
  /\ undiciCalls = 0
  /\ firstApplied = globals
  /\ rsVariant = "plain"
  /\ readableStreamEnsured = FALSE
  /\ globalReadableStream = "host"
  /\ rsAtLastReturn = "never"
  /\ timers = <<>>
  /\ wrappedTimerIds = <<>>

EnvUnused ==
  /\ globalL = "none"
  /\ globalDocument = "none"
  /\ jsdomBuilt = 0
  /\ srcSetterPatches = 0
  /\ createElementPatches = 0
  /\ mapPrototypePatches = 0
  /\ fontsRegistered = FALSE
  /\ fontBasePath = "none"
  /\ initLog = <<>>

TeardownUnused ==
  /\ maps = [m \in 1..MaxMaps |-> NoMap]
  /\ trackedMaps = <<>>
  /\ cleanupPc = "idle"
  /\ origCancels = FALSE

ReadyUnused ==
  /\ mapLoaded = FALSE
  /\ mapTileLayers = <<>>
  /\ ready = ReadyIdle

ImageUnused ==
  /\ imgVariant = "dom"
  /\ onloadMode = "ok"
  /\ onerrorMode = "ok"
  /\ imgSrc = ""
  /\ napiImage = "none"
  /\ imgWidth = 0
  /\ imgHeight = 0
  /\ cycles = <<>>

ExportUnused ==
  /\ containerOk = TRUE
  /\ elements = <<>>
  /\ rendererReady = TRUE
  /\ mapLayers = {}
  /\ exportPc = "idle"
  /\ exportIdx = 0
  /\ drawn = <<>>
  /\ exportCall = NoCall

WaitUnused ==
  /\ layerKind = "modern"
  /\ layerOutstanding = 0
  /\ layerLoading = FALSE
  /\ layerCreated = 0
  /\ layerLoadEvents = 0
  /\ layerLastError = NoEvent
  /\ wait = WaitIdle

\* Timers fire, and a promise that settles is taken up by the event loop; a
\* load that hangs never settles.
ImageFairness ==
  \A i \in 1..MaxAssign :
    /\ WF_vars(ImageTimeout(i))
    /\ WF_vars(FetchResolve(i))
    /\ WF_vars(FetchReject(i))

InitImage == ImageInit /\ ExportUnused /\ WaitUnused /\ ReadyUnused /\ TeardownUnused /\ EnvUnused /\ PolyfillUnused /\ SizeUnused /\ LoaderUnused /\ FontUnused /\ DomEventUnused /\ ProxyUnused

SpecImage == InitImage /\ [][ImageNext]_vars /\ ImageFairness

ExportFairness ==
  /\ WF_vars(ExportLoadSettled)
  /\ WF_vars(ExportFinish)
  /\ WF_vars(\E ok \in BOOLEAN : ExportWrite(ok))

InitExport == ImageUnused /\ ExportInit /\ WaitUnused /\ ReadyUnused /\ TeardownUnused /\ EnvUnused /\ PolyfillUnused /\ SizeUnused /\ LoaderUnused /\ FontUnused /\ DomEventUnused /\ ProxyUnused

SpecExport == InitExport /\ [][ExportNext]_vars /\ ExportFairness

\* The timer of a pending wait fires; the layer owes no event.
WaitFairness == WF_vars(WaitTimeout)

InitWait == ImageUnused /\ ExportUnused /\ WaitInit /\ ReadyUnused /\ TeardownUnused /\ EnvUnused /\ PolyfillUnused /\ SizeUnused /\ LoaderUnused /\ FontUnused /\ DomEventUnused /\ ProxyUnused

SpecWait == InitWait /\ [][WaitNext]_vars /\ WaitFairness

InitReady == ImageUnused /\ ExportUnused /\ WaitUnused /\ ReadyInit /\ TeardownUnused /\ EnvUnused /\ PolyfillUnused /\ SizeUnused /\ LoaderUnused /\ FontUnused /\ DomEventUnused /\ ProxyUnused

SpecReady == InitReady /\ [][ReadyNext]_vars

InitTeardown ==
  ImageUnused /\ ExportUnused /\ WaitUnused /\ ReadyUnused /\ TeardownInit /\ EnvUnused
    /\ PolyfillUnused /\ SizeUnused /\ LoaderUnused /\ FontUnused /\ DomEventUnused /\ ProxyUnused

SpecTeardown == InitTeardown /\ [][TeardownNext]_vars

InitEnv ==
  ImageUnused /\ ExportUnused /\ WaitUnused /\ ReadyUnused /\ TeardownUnused /\ EnvInit
    /\ PolyfillUnused /\ SizeUnused /\ LoaderUnused /\ FontUnused /\ DomEventUnused /\ ProxyUnused

SpecEnv == InitEnv /\ [][EnvNext]_vars

InitPolyfill ==
  ImageUnused /\ ExportUnused /\ WaitUnused /\ ReadyUnused /\ TeardownUnused /\ EnvUnused
    /\ PolyfillInit /\ SizeUnused /\ LoaderUnused /\ FontUnused /\ DomEventUnused /\ ProxyUnused

SpecPolyfill == InitPolyfill /\ [][PolyfillNext]_vars

InitSize ==
  ImageUnused /\ ExportUnused /\ WaitUnused /\ ReadyUnused /\ TeardownUnused /\ EnvUnused
    /\ PolyfillUnused /\ SizeInit /\ LoaderUnused /\ FontUnused /\ DomEventUnused /\ ProxyUnused

SpecSize == InitSize /\ [][SizeNext]_vars

InitLoader ==
  ImageUnused /\ ExportUnused /\ WaitUnused /\ ReadyUnused /\ TeardownUnused /\ EnvUnused
    /\ PolyfillUnused /\ SizeUnused /\ LoaderInit /\ FontUnused /\ DomEventUnused /\ ProxyUnused

SpecLoader == InitLoader /\ [][LoaderNext]_vars

InitFont ==
  ImageUnused /\ ExportUnused /\ WaitUnused /\ ReadyUnused /\ TeardownUnused /\ EnvUnused
    /\ PolyfillUnused /\ SizeUnused /\ LoaderUnused
    /\ FontInit /\ DomEventUnused /\ ProxyUnused

SpecFont == InitFont /\ [][FontNext]_vars

InitDomEvent ==
  ImageUnused /\ ExportUnused /\ WaitUnused /\ ReadyUnused /\ TeardownUnused /\ EnvUnused
    /\ PolyfillUnused /\ SizeUnused /\ LoaderUnused /\ FontUnused
    /\ DomEventInit /\ ProxyUnused

SpecDomEvent == InitDomEvent /\ [][DomEventNext]_vars

InitProxy ==
  ImageUnused /\ ExportUnused /\ WaitUnused /\ ReadyUnused /\ TeardownUnused /\ EnvUnused
    /\ PolyfillUnused /\ SizeUnused /\ LoaderUnused /\ FontUnused /\ DomEventUnused
    /\ ProxyInit

SpecProxy == InitProxy /\ [][ProxyNext]_vars

Init == ImageInit /\ ExportInit /\ WaitInit /\ ReadyInit /\ TeardownInit /\ EnvInit /\ PolyfillInit /\ SizeInit
          /\ LoaderInit /\ FontInit /\ DomEventInit /\ ProxyInit

Next == ImageNext \/ ExportNext \/ WaitNext \/ ReadyNext \/ TeardownNext \/ EnvNext \/ PolyfillNext \/ SizeNext
          \/ LoaderNext \/ FontNext \/ DomEventNext \/ ProxyNext

Spec == Init /\ [][Next]_vars

(***************************************************************************)
(* Claims about the synthetic image element (SpecImage).                   *)
(***************************************************************************)
HandlersAssigned == onloadMode # "none" /\ onerrorMode # "none"

\* C1: every src assignment whose cycle has ended delivered exactly one
\* notification, a load or an error (for an element with both handlers).
C1_ExactlyOneNotification ==
  \A i \in 1..Len(cycles) :
    (cycles[i].phase # "waiting" /\ HandlersAssigned)
      => cycles[i].loadFired + cycles[i].errorFired = 1

AllLoadsSettled == \A i \in 1..Len(cycles) : cycles[i].fetch # "inflight"

\* C2: once every load has settled and the load of the latest assignment
\* succeeded, the element holds the image and the size decoded from its
\* current src.
C2_LastAssignmentWins ==
  (cycles # <<>> /\ AllLoadsSettled /\ cycles[Len(cycles)].phase = "loaded")
    => /\ imgWidth = DecodedSize(imgSrc)
       /\ imgHeight = DecodedSize(imgSrc)
       /\ imgVariant = "dom" => napiImage = imgSrc

\* C3: a src assignment whose load never settles ends in the error path: the
\* error notification is delivered (to an element with an error handler).
C3_HungLoadEndsInError ==
  \A i \in 1..MaxAssign :
    (i <= Len(cycles) /\ LoadOutcome(cycles[i].src) = "hang" /\ onerrorMode # "none")
      ~> (i <= Len(cycles) /\ cycles[i].errorFired > 0)

(***************************************************************************)
(* Claims about the export pipeline (SpecExport).                          *)
(***************************************************************************)
\* C4: every toBuffer / saveImage call eventually resolves or rejects.
C4_ExportCallSettles ==
  (exportCall.status = "pending") ~> (exportCall.status # "pending")

\* An image element whose load or draw fails during an export.
FailsInExport(e) ==
  /\ e.tag = "img"
  /\ e.src # ""
  /\ \/ e.cached /\ e.drawFails
     \/ ~e.cached /\ LoadOutcome(e.src) = "bad"

\* An element the export has something to draw for.
HasBacking(e) ==
  IF e.tag = "canvas" THEN e.napiCanvas ELSE e.src # "" /\ ~FailsInExport(e)

ElementsDrawn == SelectSeq(drawn, LAMBDA x : x[1] = "elem")

ExpectedDrawn ==
  LET idx == SelectSeq([k \in 1..Len(elements) |-> k],
                       LAMBDA k : HasBacking(elements[k]))
  IN  [k \in 1..Len(idx) |-> <<"elem", idx[k]>>]

\* C5: an image element that fails to load or to draw never makes the export
\* reject, and a resolved export has drawn every other element that has
\* something to draw, each once and in document order.
C5_FailedImageIsSkipped ==
  /\ exportCall.status = "rejected" => exportCall.error \in {"container", "renderer", "write"}
  /\ exportCall.status = "resolved" => ElementsDrawn = ExpectedDrawn

C5_Witness ==
  /\ exportCall.status = "resolved"
  /\ \E i, j \in 1..Len(elements) :
       /\ i < j
       /\ FailsInExport(elements[i])
       /\ <<"elem", j>> \in {drawn[k] : k \in 1..Len(drawn)}

(***************************************************************************)
(* Claims about waitForTiles (SpecWait).                                   *)
(***************************************************************************)
\* C6: the promise resolves only when the layer is not loading and has no
\* outstanding tile.
C6_ResolvesOnlyWhenLayerDone ==
  [][(wait.status # "resolved" /\ wait'.status = "resolved")
       => (~layerLoading' /\ layerOutstanding' = 0)]_vars

\* C7: a call on a layer that is not loading and has no outstanding tile
\* resolves within the call: no listener and no timer is left behind.
C7_ImmediateWhenAlreadyLoaded ==
  [][(wait.status = "idle" /\ wait'.status # "idle"
        /\ ~layerLoading /\ layerOutstanding = 0)
       => (wait'.status = "resolved" /\ wait'.settledBy = "call"
             /\ wait'.listeners = {} /\ wait'.timer = "none")]_vars

C7_Witness ==
  /\ wait.status = "resolved"
  /\ wait.settledBy = "call"
  /\ layerKind = "legacy"
  /\ layerCreated = 0
  /\ layerLoadEvents = 0
  /\ ~layerLoading

TileErrorDelivered == wait.status = "pending" /\ wait'.failed = wait.failed + 1

\* C8 as stated: a tile error resolves the promise when the failed tile was
\* the layer's last outstanding tile, and rejects it otherwise.
C8_ErrorOnLastTileResolves ==
  [][TileErrorDelivered
       => IF layerOutstanding = 1 THEN wait'.status = "resolved"
                                  ELSE wait'.status = "rejected"]_vars

\* C8 amended: a tile error always rejects the promise, last outstanding tile
\* or not, with an error that names the failing tile's src when it has one.
C8_ErrorAlwaysRejects ==
  [][TileErrorDelivered
       => /\ wait'.status = "rejected"
          /\ wait'.reason.kind = "Tile failed to load"
          /\ layerLastError'.src # "" => wait'.reason.url = layerLastError'.src]_vars

C8_Witness ==
  /\ wait.settledBy = "tileerror"
  /\ wait.status = "rejected"
  /\ layerOutstanding = 0
  /\ layerCreated > 0
  /\ layerLastError.src # ""
  /\ layerLastError.coords # "none"

\* C9: once a tile error has reached the wait, the promise is rejected with
\* 'Tile failed to load' and stays so, whatever the layer fires afterwards.
C9_AnyTileErrorRejects ==
  wait.failed > 0
    => (wait.status = "rejected" /\ wait.reason.kind = "Tile failed to load")

C9_Witness ==
  /\ wait.failed > 0
  /\ wait.status = "rejected"
  /\ layerOutstanding = 0
  /\ ~layerLoading
  /\ layerLoadEvents > 0

\* C10 as stated: a pending wait always ends, by the timeout if by nothing else.
C10_PendingWaitTimesOut ==
  (wait.status = "pending") ~> (wait.status # "pending")

\* C10 amended: a pending wait with a positive timeout always ends, and the
\* timer's firing rejects it with the timeout error.
C10_PositiveTimeoutRejects ==
  /\ (wait.status = "pending" /\ wait.timeout > 0) ~> (wait.status # "pending")
  /\ [](wait.settledBy = "timeout"
          => /\ wait.status = "rejected"
             /\ wait.reason.kind = "Timed out waiting for tile layer to load.")

C10_Witness ==
  /\ wait.settledBy = "timeout"
  /\ wait.timer = "fired"
  /\ layerOutstanding > 0

(***************************************************************************)
(* Claims about waitForMapReady (SpecReady).                               *)
(***************************************************************************)
\* the tile layers that were attached when the map signalled ready
TileLayersAtReady ==
  {i \in 1..ready.layersAtReady : mapTileLayers[i].tile}

\* C11: the call resolves only after the map has signalled ready and the wait
\* on every tile layer attached at that moment has resolved; those waits are
\* all started together, and the rejection of any one rejects the call.
C11_ReadyAfterMapAndAllLayers ==
  /\ ready.status = "resolved"
       => /\ mapLoaded
          /\ \A i \in TileLayersAtReady : mapTileLayers[i].w.status = "resolved"
  /\ ready.stage = "layers"
       => \A i \in TileLayersAtReady : mapTileLayers[i].w.status # "idle"
  /\ (ready.stage = "layers"
        /\ \E i \in TileLayersAtReady : mapTileLayers[i].w.status = "rejected")
       => ready.status = "rejected"

C11_Witness ==
  /\ ready.status = "resolved"
  /\ Cardinality(TileLayersAtReady) = 2
  /\ \A i \in TileLayersAtReady : mapTileLayers[i].w.settledBy \in {"load", "tileload"}

(***************************************************************************)
(* Claims about teardown (SpecTeardown).                                   *)
(***************************************************************************)
\* C12: when cleanupTestMaps removes a map, no animation-frame request of a
\* renderer of any tracked map is still pending, and when it has finished no
\* map is tracked.
C12_CancelsAllBeforeRemovingAny ==
  /\ \A m \in 1..MaxMaps : maps[m].removedBy = "cleanup" => maps[m].seen = {}
  /\ cleanupPc = "done" => trackedMaps = <<>>

\* C13: when the original removal of a map runs, no animation-frame request
\* of a renderer of the map's layers is pending, and none is once the map is
\* removed.
C13_RemoveCancelsRendererFrames ==
  \A m \in 1..MaxMaps :
    (maps[m].state = "removed" /\ maps[m].layerRef)
      => /\ \A f \in FrameFields : <<m, f>> \notin maps[m].seen
         /\ ~maps[m].frame /\ ~maps[m].redrawRequest

(***************************************************************************)
(* Claims about initializeEnvironment (SpecEnv).                           *)
(***************************************************************************)
\* C14: a call made when the environment is already initialized returns the
\* cached namespace, the same one the first call returned, and builds and
\* patches nothing.
C14_SecondCallReturnsCached ==
  \A i \in 1..Len(initLog) :
    initLog[i].before.L # "none"
      => /\ initLog[i].returned = initLog[i].before.L
         /\ initLog[i].returned = initLog[1].returned
         /\ initLog[i].after = initLog[i].before

C14_Witness ==
  /\ Len(initLog) >= 2
  /\ initLog[2].before.L # "none"
  /\ initLog[2].options # initLog[1].options
  /\ initLog[2].before.document = "host"

(***************************************************************************)
(* Claims about the polyfills (SpecPolyfill).                              *)
(***************************************************************************)
\* C15: however often ensureUndiciPolyfills is called, resets in between or
\* not, the patched globals are as the first call left them: nothing is
\* installed or wrapped a second time.
C15_ReapplyLeavesGlobalsAsFirst ==
  undiciCalls > 0 => globals = firstApplied

\* C16: whenever ensureReadableStream has returned, globalThis.ReadableStream
\* is defined, whatever calls, resets and removals came before.
C16_StreamDefinedOnReturn ==
  rsAtLastReturn # "absent"

\* C17: once clearTimeout has been called with a handle the patched setTimeout
\* returned, or with its numeric value, the timer is not scheduled any more
\* and its callback does not run.
C17_ClearedTimerNeverRuns ==
  \A t \in 1..Len(timers) :
    (timers[t].cleared /\ timers[t].handle.form # "number")
      => (timers[t].state # "scheduled" /\ ~timers[t].ranAfterClear)

C17_Witness ==
  /\ Len(timers) = 2
  /\ globals.timerWraps = 2
  /\ \A t \in 1..2 : timers[t].handle.form = "wrapper" /\ timers[t].state = "cancelled"
  /\ wrappedTimerIds[1] = {2}

(***************************************************************************)
(* Claims about the map size (SpecSize).                                   *)
(***************************************************************************)
\* C18: after setSize(w, h) every getSize returns (w, h) until the next
\* setSize, also when the size was marked dirty and recomputed in between.
C18_GetSizeReturnsSetSize ==
  (lastSet.valid /\ lastGet.valid) => lastGet.value = lastSet.value

C18_Witness ==
  /\ lastSet.valid
  /\ lastGet.valid
  /\ lastGet.recomputed
  /\ containerClient \notin {ZeroSize, lastSet.value}
  /\ optionsMapSize # lastSet.value

\* the headless size configured for the map: its last setSize, else its
\* mapSize option, else the initializer's
ConfiguredSize ==
  IF lastSet.valid THEN lastSet.value
  ELSE IF mapSizeOption # ZeroSize THEN mapSizeOption
  ELSE optionsMapSize

\* C19: a getSize that computes the size returns the container's client size
\* when it is not zero, else the size of its bounding rectangle when that is
\* not zero, else the headless size configured for the map.
C19_GetSizePrefersContainer ==
  (lastGet.valid /\ lastGet.recomputed)
    => lastGet.value = IF containerClient # ZeroSize THEN containerClient
                       ELSE IF containerRect # ZeroSize THEN containerRect
                       ELSE ConfiguredSize

(***************************************************************************)
(* Claims about the image loader (SpecLoader).                             *)
(***************************************************************************)
\* C20: the loader takes a source that begins with http:// or https:// from
\* the network, else one that begins with data: as a data URI, else one that
\* begins with file:// as the path after the prefix, else as a path; and it
\* rejects with the fetch error on a status outside 2xx, with the
\* missing-file error (naming the path without its query string) when the
\* file is not there, and with the data URI error when there is no comma.
C20_LoaderPicksKindByPrefix ==
  LET s == loader.src
      net == (Len(s) >= 7 /\ SubSeq(s, 1, 7) = Http) \/ (Len(s) >= 8 /\ SubSeq(s, 1, 8) = Https)
      data == Len(s) >= 5 /\ SubSeq(s, 1, 5) = DataPrefix
      file == Len(s) >= 7 /\ SubSeq(s, 1, 7) = FilePrefix
      path == IF file THEN SubSeq(s, 8, Len(s)) ELSE s
      settled == loader.stage \in {"resolved", "rejected"}
  IN  loader.kind # "none" =>
        /\ net => loader.kind = "network" /\ (loader.stage = "fetching" \/ loader.status # 0 \/ loader.error = "fetch failed")
        /\ (~net /\ data) => loader.kind = "data"
        /\ (~net /\ ~data /\ file) => loader.kind = "file"
        /\ (~net /\ ~data /\ ~file) => loader.kind = "path"
        /\ loader.kind \in {"file", "path"} =>
             /\ loader.access # "none" \/ loader.stage = "access"
             /\ \A i \in 1..Len(loader.target) : loader.target[i] = path[i]
             /\ \A i \in 1..Len(loader.target) : loader.target[i] # "?"
             /\ Len(loader.target) = Len(path) \/ path[Len(loader.target) + 1] = "?"
        /\ (loader.status # 0 /\ (loader.status < 200 \/ loader.status > 299))
             => loader.stage = "rejected" /\ loader.error = "Failed to fetch image" /\ loader.target = s
        /\ loader.access = "missing"
             => loader.stage = "rejected" /\ loader.error = "Could not find image"
        /\ (loader.kind = "data" /\ \A i \in 1..Len(s) : s[i] # ",")
             => loader.stage = "rejected" /\ loader.error = "Invalid data URI provided"
        /\ (loader.kind = "data" /\ \E i \in 1..Len(s) : s[i] = ",")
             => loader.error # "Invalid data URI provided"
        /\ loader.error = "Could not find image" => loader.access = "missing"
        /\ loader.error = "Failed to fetch image" => ~(loader.status \in 200..299)

C20_Witness ==
  /\ loader.kind = "file"
  /\ loader.src = FilePrefix \o Http \o <<"a", "?">>
  /\ loader.stage = "rejected"
  /\ loader.error = "Could not find image"
  /\ loader.target = Http \o <<"a">>

(***************************************************************************)
(* Claims about font discovery (SpecFont).                                 *)
(***************************************************************************)
\* C21: when an override path is configured and a font is found through it,
\* that font is what is registered, whatever packages are installed; with no
\* override the font-family package comes first, then the legacy package,
\* then the bundled locations.
C21_OverrideComesFirst ==
  LET override == fontCall.explicit # "none" \/ fontCall.env # "none"
      viaOverride == ResolveBundledFontPath(fontCall.explicit, fontCall.env, fontHost)
      from(k) == \A i \in 1..Len(fontCall.paths) : fontCall.paths[i].from = k
      hasVariant == \E i \in 1..MaxVariants : fontHost.variants[i] # "none"
  IN  fontCall.done =>
        /\ (override /\ viaOverride # <<>>) => fontCall.paths = viaOverride
        /\ (~override /\ hasVariant) => fontCall.paths # <<>> /\ from("fontsource")
        /\ (~override /\ ~hasVariant /\ fontHost.typeface) => fontCall.paths # <<>> /\ from("typeface")
        /\ (~override /\ ~hasVariant /\ ~fontHost.typeface) => from("bundled")

C23_DrawnInDocumentOrder ==
  \A i, j \in 1..Len(drawn) :
    i < j =>
      /\ drawn[i][1] = "popup" => drawn[j][1] = "popup"
      /\ (drawn[i][1] = "elem" /\ drawn[j][1] = "elem") => drawn[i][2] < drawn[j][2]

C23_Witness ==
  /\ exportCall.status = "resolved"
  /\ Len(drawn) >= 4
  /\ drawn[1] = <<"elem", 1>>
  /\ drawn[2] = <<"elem", 3>>
  /\ elements[3].tag = "img"
  /\ elements[1].tag = "canvas"
  /\ drawn[Len(drawn)][1] = "popup"

(***************************************************************************)
(* A further claim about the synthetic image element (SpecImage).          *)
(***************************************************************************)
\* C24: the decoded image cached on the element (which an export draws in
\* place of loading the src) is the one decoded from the element's current
\* src, or there is none.
C24_CachedImageIsOfCurrentSrc ==
  napiImage \in {"none", imgSrc}

(***************************************************************************)
(* A further claim about waitForTiles (SpecWait).                          *)
(***************************************************************************)
\* C25: resolve / reject is called at most once for one wait, and a settled
\* wait has none of its four listeners on the layer and no armed timer.
C25_SettlesOnceAndCleansUp ==
  /\ wait.settleCalls <= 1
  /\ wait.status \in {"resolved", "rejected"}
       => (wait.settleCalls = 1 /\ wait.listeners = {} /\ wait.timer # "armed")

C25_Witness ==
  /\ wait.status = "resolved"
  /\ wait.settledBy = "tileload"
  /\ wait.timer = "cancelled"
  /\ layerLoadEvents > 0
  /\ layerCreated > 1

(***************************************************************************)
(* Further claims about initializeEnvironment (SpecEnv).                   *)
(***************************************************************************)
\* C26: however often the initializer has run, a src assignment on an image
\* element of the patched DOM starts one load and so delivers one event.
C26_ImagePatchInEffectOnce ==
  srcSetterPatches > 0 => LoadsPerSrcAssignment(DomState) = 1

\* C27: the namespace every call of the initializer returns has the headless
\* map operations.
C27_ReturnedNamespaceIsPatched ==
  \A i \in 1..Len(initLog) :
    HasHeadlessOperations(initLog[i].returned, initLog[i].after)

(***************************************************************************)
(* Claims about the DomEvent patch (SpecDomEvent).                         *)
(***************************************************************************)
\* C28: the wrapped off swallows an error only when it is a TypeError whose
\* message names the missing detach method; any other error the original
\* routine throws reaches the caller.
C28_SwallowsOnlyMissingDetach ==
  \A i \in 1..Len(offLog) :
    LET e == offLog[i].error
        missingDetach == e.type = "TypeError" /\ \E k \in 1..Len(e.message) : e.message[k] = "detachEvent"
    IN  (offLog[i].wrapped /\ e.type # "none")
          => (offLog[i].outcome = "swallowed" <=> missingDetach)

(***************************************************************************)
(* Claims about the proxy dispatcher (SpecProxy).                          *)
(***************************************************************************)
\* C29: a network load that finds no dispatcher cached resolves it from the
\* first non-empty proxy variable, as the variables are then (none when all
\* are empty); once one is cached it never changes, and every load is given
\* the cached one, whatever the variables hold by then.
C29_DispatcherResolvedOnce ==
  [][LET firstSet(k) == proxyEnv[ProxyVars[k]] # ""
                          /\ \A j \in 1..(k - 1) : proxyEnv[ProxyVars[j]] = ""
     IN  /\ cachedDispatcher # "undefined" => cachedDispatcher' = cachedDispatcher
         /\ proxyFetches' # proxyFetches =>
              /\ lastDispatcher' # "threw" => lastDispatcher' = cachedDispatcher'
              /\ cachedDispatcher = "undefined" =>
                   /\ (\A k \in 1..Len(ProxyVars) : ~firstSet(k)) => cachedDispatcher' = "null"
                   /\ \A k \in 1..Len(ProxyVars) :
                        (firstSet(k) /\ proxyEnv[ProxyVars[k]] = "url")
                          => cachedDispatcher' = ProxyVars[k]]_vars

C29_Witness ==
  /\ proxyFetches = 2
  /\ cachedDispatcher = "HTTP_PROXY"
  /\ lastDispatcher = "HTTP_PROXY"
  /\ proxyEnv["HTTP_PROXY"] = ""
  /\ proxyEnv["HTTPS_PROXY"] = "url"

(***************************************************************************)
(* A further claim about the timer wrappers (SpecPolyfill).                *)
(***************************************************************************)
\* C30: every entry of a wrappedTimerIds map belongs to a timer that is still
\* scheduled: none is left for a timer that fired or was cleared.
C30_TableHoldsOnlyPendingTimers ==
  \A k \in 1..Len(wrappedTimerIds) :
    \A t \in wrappedTimerIds[k] : timers[t].state = "scheduled"

====
